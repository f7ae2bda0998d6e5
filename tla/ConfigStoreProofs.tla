------------------------- MODULE ConfigStoreProofs --------------------------
(***************************************************************************)
(* Theorems about ConfigStore, for any commands and any number of them at  *)
(* a time: a save undoes only what is recent, the registry follows the     *)
(* local file, and setup turns away only an account it has just made or a   *)
(* profile with a relay of its own.                                        *)
(***************************************************************************)
EXTENDS ConfigStore, TLAPS

Docs     == [Keys -> Values]
Contents == Docs \cup {Absent, Torn}
Entries  == Keys \cup {P(v) : v \in Values} \cup {R(v) : v \in Values}
Final    == {"done", "failed", "rejected", "refused", "killed"}
Wizard   == {"location", "wizardLocal", "wizard", "wizardNew"}
Labels   == {"new", "sync", "act", "proxy", "confirm", "account", "create", "register"}
              \cup Wizard \cup Final

-----------------------------------------------------------------------------
(* The inductive invariant                                                 *)

Types ==
  /\ disk \in [Files -> Contents]
  /\ cmd \in [Ids -> Commands]
  /\ pc \in [Ids -> Labels]
  /\ mem \in [Ids -> [Files -> Docs]]
  /\ known \in [Ids -> SUBSET (Files \X Keys)]
  /\ hasLocal \in [Ids -> BOOLEAN]
  /\ open \in [Ids -> Files \cup {None}]
  /\ last \in [Files -> Docs]
  /\ touched \in [Ids -> SUBSET (Files \X (Keys \cup {File}))]
  /\ tornRead \in [Ids -> SUBSET Files]
  /\ edited \in [Ids -> SUBSET (Files \X Entries)]

\* A file that can be read holds what was written last.
DiskIsLast == \A f \in Files : disk[f] # Torn => last[f] = Parse(disk[f])

\* Command i has read the files and may still write one.
Live(i) == pc[i] # "new" /\ (pc[i] \in Final => open[i] # None)

\* Entry k of f is v, unless i knows better or cannot know.
InStep(i, f, k, v) ==
  \/ last[f][k] = v
  \/ <<f, k>> \in edited[i] \cup touched[i]
  \/ f \in tornRead[i]

\* The copy of a command is what the file holds, except where it was edited or
\* the file changed since.  init, which removes the local file, is done with it.
CopyInStep(i) ==
  Live(i) => \A f \in Files, k \in Keys :
    (f = "local" /\ cmd[i].op = "init" => pc[i] \in {"sync", "act"}) =>
      InStep(i, f, k, mem[i][f][k])

\* The local file that init or setup is about to create holds nothing.
CreateInStep(i) == pc[i] = "create" => \A k \in Keys : InStep(i, "local", k, Empty[k])
NoLocalCopy(i) ==
  pc[i] \in {"sync", "act", "account", "location"} /\ ~hasLocal[i] => mem[i]["local"] = Empty

\* Which command can be where, and which file it can have open there.
Place(i) ==
  /\ pc[i] \in {"new", "sync"} => open[i] = None /\ edited[i] = {}
  /\ pc[i] = "act" => open[i] \in {None, "global"}
  /\ pc[i] = "confirm" => cmd[i].op \in {"delete", "remove"}
  /\ pc[i] \in {"create", "register"} => cmd[i].op = "init"
  /\ pc[i] \in Wizard => cmd[i].op = "setup"
  /\ cmd[i].op = "init" => open[i] # "local"

\* Past its first step the wizard has found or written an account.
HasAccount(i) ==
  /\ pc[i] \in Wizard => <<"global", S>> \in known[i] \cup edited[i]
  /\ pc[i] = "rejected" => <<"global", S>> \in edited[i] \/ NamesRelay(i)

\* Undisturbed, a command knows whether there is a local file, and from its
\* sync on the registry, or the copy it is writing, says the same.
Registry(i) ==
  touched[i] = {} /\ tornRead[i] = {} =>
    /\ pc[i] \in {"sync", "act"} => (hasLocal[i] <=> disk["local"] # Absent)
    /\ pc[i] = "act" /\ open[i] = None => (hasLocal[i] <=> last["global"][Local] # None)
    /\ pc[i] = "act" /\ open[i] # None => (hasLocal[i] <=> mem[i]["global"][Local] # None)

Good(i) ==
  CopyInStep(i) /\ CreateInStep(i) /\ NoLocalCopy(i) /\ Place(i) /\ HasAccount(i) /\ Registry(i)

IInv == Types /\ DiskIsLast /\ \A i \in Ids : Good(i)

-----------------------------------------------------------------------------
(* What a step does to the others                                          *)

\* j is told of every change to the files.
Seen(j) ==
  /\ touched[j] \subseteq touched'[j]
  /\ \A f \in Files, k \in Keys : last'[f][k] # last[f][k] => <<f, k>> \in touched'[j]
  /\ touched'[j] = {} => (disk'["local"] = Absent <=> disk["local"] = Absent)

\* What j holds itself stays.
Same(j) ==
  /\ pc'[j] = pc[j] /\ mem'[j] = mem[j] /\ known'[j] = known[j]
  /\ hasLocal'[j] = hasLocal[j] /\ open'[j] = open[j]
  /\ tornRead'[j] = tornRead[j] /\ edited'[j] = edited[j]

\* SaveUndoesOnlyRecent, for one command.
Undoes(i) ==
  \A f \in Files, k \in Keys : last'[f][k] # last[f][k] =>
    \/ <<f, k>> \in edited'[i] \cup touched[i]
    \/ f \in tornRead[i]
    \/ disk'[f] = Torn
    \/ disk'[f] = Absent /\ cmd[i].op \in {"remove", "init"}

\* What is to be shown of a step of command i.
StepIsGood(i) ==
  /\ Types' /\ DiskIsLast' /\ Good(i)' /\ Undoes(i) /\ cmd' = cmd
  /\ \A j \in Ids \ {i} : Same(j) /\ Seen(j)

-----------------------------------------------------------------------------
(* Lemmas about the operators                                              *)

\* The entries, and what a file that cannot be read is taken for.
LEMMA Basics ==
  /\ S \in Keys /\ Active \in Keys /\ Default \in Keys /\ Local \in Keys /\ File \notin Keys
  /\ Empty \in Docs
  /\ \A x \in Contents : Parse(x) \in Docs
  /\ Keys \subseteq Entries /\ \A v \in Values : P(v) \in Entries /\ R(v) \in Entries
  /\ None \in Values /\ None \notin Files /\ \A i \in Ids : i # None /\ i \in Values
  /\ Local # S /\ Local # Active /\ Server # None /\ Server \in Values
  /\ "local" \in Files /\ "global" \in Files
<1>1. S \in Keys /\ Active \in Keys /\ Default \in Keys /\ Local \in Keys
  BY DEF Keys
<1>2. File \notin Keys
  BY DEF Keys, P, R, S, Active, Default, Local, File
<1>3. None \in Values /\ DefaultName \in Values /\ Ids \subseteq Values /\ Server \in Values
  BY ConfigAssumption DEF Values
<1>4. Empty \in Docs
  BY <1>3 DEF Empty, Docs
<1>5. ASSUME NEW x \in Contents PROVE Parse(x) \in Docs
  BY <1>4, <1>5 DEF Parse, Contents
<1>6. Keys \subseteq Entries /\ \A v \in Values : P(v) \in Entries /\ R(v) \in Entries
  BY DEF Entries
<1>7. None \notin Files /\ Server # None /\ \A i \in Ids : i # None
  BY ConfigAssumption
<1>8. Local # S /\ Local # Active
  BY DEF Local, S, Active
<1>9. "local" \in Files /\ "global" \in Files
  BY DEF Files
<1>. QED BY <1>1, <1>2, <1>3, <1>4, <1>5, <1>6, <1>7, <1>8, <1>9

\* Documents are not the marks for a missing or a torn file.
LEMMA DocIsReadable ==
  ASSUME NEW d \in Docs PROVE d # Absent /\ d # Torn /\ Parse(d) = d
BY ConfigAssumption DEF Docs, Parse

\* What Put does to the files and to those who have read them.
LEMMA PutEffect ==
  ASSUME Types, DiskIsLast, NEW i \in Ids, NEW f \in Files,
         NEW content \in Contents, NEW doc \in Docs, Put(i, f, content, doc),
         content # Torn => doc = Parse(content)
  PROVE  /\ disk' \in [Files -> Contents] /\ last' \in [Files -> Docs]
         /\ touched' \in [Ids -> SUBSET (Files \X (Keys \cup {File}))]
         /\ DiskIsLast'
         /\ disk'[f] = content /\ last'[f] = doc
         /\ \A g \in Files \ {f} : disk'[g] = disk[g] /\ last'[g] = last[g]
         /\ \A j \in Ids \ {i} : Seen(j)
         /\ content # Torn => touched'[i] = touched[i]
         /\ content = Torn => Seen(i) /\ touched'[i] # {}
<1>. DEFINE Changed == {<<f, k>> : k \in {e \in Keys : last[f][e] # doc[e]}}
            Filed == {<<f, k>> : k \in {e \in {File} : Absent \in {disk[f], content} \/ content = Torn}}
<1>1. /\ disk' = [disk EXCEPT ![f] = content] /\ last' = [last EXCEPT ![f] = doc]
      /\ disk \in [Files -> Contents] /\ last \in [Files -> Docs]
  BY DEF Put, Types
<1>2. /\ disk' \in [Files -> Contents] /\ last' \in [Files -> Docs]
      /\ disk'[f] = content /\ last'[f] = doc
      /\ \A g \in Files \ {f} : disk'[g] = disk[g] /\ last'[g] = last[g]
  BY <1>1
<1>3. \A j \in Ids : touched[j] \subseteq Files \X (Keys \cup {File})
  BY DEF Types
<1>4. touched' = [j \in Ids |-> IF j = i /\ content # Torn THEN touched[j]
                                ELSE touched[j] \cup Changed \cup Filed]
  BY DEF Put
<1>5. Changed \subseteq Files \X (Keys \cup {File}) /\ Filed \subseteq Files \X (Keys \cup {File})
  OBVIOUS
<1>6. /\ content # Torn => touched'[i] = touched[i]
      /\ \A j \in Ids : j # i \/ content = Torn => touched'[j] = touched[j] \cup Changed \cup Filed
  BY <1>4
<1>7. touched' \in [Ids -> SUBSET (Files \X (Keys \cup {File}))]
  <2>1. ASSUME NEW j \in Ids PROVE touched'[j] \in SUBSET (Files \X (Keys \cup {File}))
    BY <1>3, <1>5, <1>6, <2>1
  <2>2. touched' = [j \in Ids |-> touched'[j]]
    BY <1>4
  <2>. HIDE DEF Changed, Filed
  <2>. QED BY <2>1, <2>2
<1>8. DiskIsLast'
  <2>1. ASSUME NEW g \in Files, disk'[g] # Torn PROVE last'[g] = Parse(disk'[g])
    <3>1. CASE g = f BY <1>2, <2>1, <3>1
    <3>2. CASE g # f BY <1>2, <2>1, <3>2 DEF DiskIsLast
    <3>. QED BY <3>1, <3>2
  <2>. QED BY <2>1 DEF DiskIsLast, Parse
<1>9. ASSUME NEW j \in Ids, j # i \/ content = Torn PROVE Seen(j)
  <2>1. touched'[j] = touched[j] \cup Changed \cup Filed
    BY <1>6, <1>9
  <2>2. ASSUME NEW g \in Files, NEW k \in Keys, last'[g][k] # last[g][k] PROVE <<g, k>> \in Changed
    <3>1. g = f
      BY <1>2, <2>2
    <3>. QED BY <1>2, <2>2, <3>1
  <2>3. ASSUME touched'[j] = {} PROVE disk'["local"] = Absent <=> disk["local"] = Absent
    <3>1. Filed = {}
      BY <2>1, <2>3
    <3>2. ~(Absent \in {disk[f], content})
      BY <3>1
    <3>3. CASE f = "local" BY <1>2, <3>2, <3>3
    <3>4. CASE f # "local" BY <1>2, <3>4 DEF Files
    <3>. QED BY <3>3, <3>4
  <2>. HIDE DEF Changed, Filed
  <2>. QED BY <2>1, <2>2, <2>3 DEF Seen
<1>10. ASSUME content = Torn PROVE touched'[i] # {}
  <2>1. <<f, File>> \in Filed
    BY <1>10
  <2>. QED BY <1>6, <1>10, <2>1
<1>. QED BY <1>2, <1>6, <1>7, <1>8, <1>9, <1>10

\* What Truncate does to the files and to those who have read them.
LEMMA TruncateEffect ==
  ASSUME Types, DiskIsLast, NEW i \in Ids, NEW f \in Files, Truncate(i, f)
  PROVE  /\ disk' \in [Files -> Contents] /\ last' = last
         /\ touched' \in [Ids -> SUBSET (Files \X (Keys \cup {File}))]
         /\ open' \in [Ids -> Files \cup {None}]
         /\ open'[i] = f /\ \A j \in Ids \ {i} : open'[j] = open[j]
         /\ DiskIsLast'
         /\ disk'[f] = Torn /\ \A g \in Files \ {f} : disk'[g] = disk[g]
         /\ touched'[i] = touched[i]
         /\ \A j \in Ids \ {i} : Seen(j)
<1>1. /\ disk' = [disk EXCEPT ![f] = Torn] /\ last' = last /\ open' = [open EXCEPT ![i] = f]
      /\ disk \in [Files -> Contents] /\ open \in [Ids -> Files \cup {None}]
      /\ Torn \in Contents
  BY DEF Truncate, Types, Contents
<1>2. /\ disk' \in [Files -> Contents] /\ last' = last /\ open' \in [Ids -> Files \cup {None}]
      /\ disk'[f] = Torn /\ \A g \in Files \ {f} : disk'[g] = disk[g]
      /\ open'[i] = f /\ \A j \in Ids \ {i} : open'[j] = open[j]
  BY <1>1
<1>3. touched' = [j \in Ids |-> IF j # i /\ disk[f] = Absent THEN touched[j] \cup {<<f, File>>}
                                ELSE touched[j]]
  BY DEF Truncate
<1>4. \A j \in Ids : touched[j] \subseteq Files \X (Keys \cup {File})
  BY DEF Types
<1>5. touched' \in [Ids -> SUBSET (Files \X (Keys \cup {File}))] /\ touched'[i] = touched[i]
  BY <1>3, <1>4
<1>6. DiskIsLast'
  BY <1>2 DEF DiskIsLast, Parse
<1>7. ASSUME NEW j \in Ids \ {i} PROVE Seen(j)
  <2>1. touched[j] \subseteq touched'[j]
    BY <1>3
  <2>2. \A g \in Files, k \in Keys : last'[g][k] = last[g][k]
    BY <1>2
  <2>3. ASSUME touched'[j] = {} PROVE disk'["local"] = Absent <=> disk["local"] = Absent
    <3>1. disk[f] # Absent
      BY <1>3, <2>3
    <3>2. CASE f = "local" BY <1>2, <3>1, <3>2, ConfigAssumption
    <3>3. CASE f # "local" BY <1>2, <3>3 DEF Files
    <3>. QED BY <3>2, <3>3
  <2>. QED BY <2>1, <2>2, <2>3 DEF Seen
<1>. QED BY <1>2, <1>5, <1>6, <1>7

\* A command that does nothing itself stays good, whatever the others do.
LEMMA Bystander ==
  ASSUME Types, NEW j \in Ids, Good(j), Same(j), Seen(j), cmd' = cmd
  PROVE  Good(j)'
<1>1. ASSUME NEW f \in Files, NEW k \in Keys, NEW v, InStep(j, f, k, v)
      PROVE  InStep(j, f, k, v)'
  <2>1. CASE last[f][k] = v
    BY <2>1 DEF Seen, InStep
  <2>2. CASE <<f, k>> \in edited[j] \cup touched[j]
    BY <2>2 DEF Seen, Same, InStep
  <2>3. CASE f \in tornRead[j]
    BY <2>3 DEF Same, InStep
  <2>. QED BY <1>1, <2>1, <2>2, <2>3 DEF InStep
<1>2. CopyInStep(j)'
  <2>. SUFFICES ASSUME Live(j)', NEW f \in Files, NEW k \in Keys,
                       f = "local" /\ cmd[j].op = "init" => pc'[j] \in {"sync", "act"}
                PROVE  InStep(j, f, k, mem[j][f][k])'
    BY DEF CopyInStep, Live, InStep
  <2>1. Live(j) /\ pc'[j] = pc[j] /\ mem'[j] = mem[j]
    BY DEF Live, Same
  <2>2. InStep(j, f, k, mem[j][f][k])
    BY <2>1 DEF Good, CopyInStep
  <2>. QED BY <1>1, <2>1, <2>2 DEF InStep
<1>3. CreateInStep(j)'
  <2>. SUFFICES ASSUME pc'[j] = "create", NEW k \in Keys
                PROVE  InStep(j, "local", k, Empty[k])'
    BY DEF CreateInStep, InStep
  <2>1. InStep(j, "local", k, Empty[k]) /\ "local" \in Files
    BY DEF Good, CreateInStep, Same, Files
  <2>. QED BY <1>1, <2>1 DEF InStep
<1>4. NoLocalCopy(j)'
  BY DEF Good, NoLocalCopy, Same
<1>5. Place(j)'
  BY DEF Good, Place, Same
<1>6. HasAccount(j)'
  BY DEF Good, HasAccount, Same, NamesRelay, Target
<1>7. Registry(j)'
  <2>. SUFFICES ASSUME touched'[j] = {}, tornRead'[j] = {}
                PROVE  /\ pc[j] \in {"sync", "act"} => (hasLocal[j] <=> disk'["local"] # Absent)
                       /\ pc[j] = "act" /\ open[j] = None => (hasLocal[j] <=> last'["global"][Local] # None)
                       /\ pc[j] = "act" /\ open[j] # None => (hasLocal[j] <=> mem[j]["global"][Local] # None)
    BY DEF Registry, Same
  <2>1. touched[j] = {} /\ tornRead[j] = {} /\ (disk'["local"] = Absent <=> disk["local"] = Absent)
    BY DEF Seen, Same
  <2>2. last'["global"][Local] = last["global"][Local]
    BY Basics DEF Seen
  <2>. QED BY <2>1, <2>2 DEF Good, Registry
<1>. QED BY <1>2, <1>3, <1>4, <1>5, <1>6, <1>7 DEF Good

-----------------------------------------------------------------------------
(* Kinds of steps                                                          *)

\* A step that only goes on: what is left to show depends on where it goes.
LEMMA GoGood ==
  ASSUME Types, DiskIsLast, NEW i \in Ids, Good(i), NEW label \in Labels \ {"new", "sync"},
         Go(i, label), open[i] = None, pc[i] \notin {"new"} \cup Final,
         label = "act" => /\ pc[i] = "sync"
                          /\ touched[i] = {} /\ tornRead[i] = {} =>
                               (hasLocal[i] <=> last["global"][Local] # None),
         label = "confirm" => cmd[i].op \in {"delete", "remove"},
         label \in {"create", "register"} => cmd[i].op = "init",
         label = "create" => \A k \in Keys : InStep(i, "local", k, Empty[k]),
         label \in {"account", "location"} => pc[i] = "act",
         label \in Wizard => cmd[i].op = "setup" /\ <<"global", S>> \in known[i] \cup edited[i],
         label = "rejected" => <<"global", S>> \in edited[i] \/ NamesRelay(i)
  PROVE  StepIsGood(i)
<1>1. /\ pc' = [pc EXCEPT ![i] = label] /\ cmd' = cmd /\ mem' = mem /\ known' = known
      /\ hasLocal' = hasLocal /\ tornRead' = tornRead /\ open' = open /\ edited' = edited
      /\ disk' = disk /\ last' = last /\ touched' = touched
  BY DEF Go, Goto, copy, store
<1>2. /\ pc' \in [Ids -> Labels] /\ pc'[i] = label /\ \A j \in Ids \ {i} : pc'[j] = pc[j]
  BY <1>1 DEF Types
<1>3. Types'
  BY <1>1, <1>2 DEF Types
<1>4. DiskIsLast'
  BY <1>1 DEF DiskIsLast, Parse
<1>5. \A j \in Ids \ {i} : Same(j) /\ Seen(j)
  BY <1>1, <1>2 DEF Same, Seen
<1>6. Undoes(i)
  BY <1>1 DEF Undoes
<1>7. ASSUME NEW f, NEW k, NEW v, InStep(i, f, k, v) PROVE InStep(i, f, k, v)'
  BY <1>1, <1>7 DEF InStep
<1>8. CopyInStep(i)'
  <2>. SUFFICES ASSUME NEW f \in Files, NEW k \in Keys,
                       f = "local" /\ cmd[i].op = "init" => label \in {"sync", "act"}
                PROVE  InStep(i, f, k, mem[i][f][k])'
    BY <1>1, <1>2 DEF CopyInStep, InStep
  <2>1. Live(i)
    BY DEF Live
  <2>2. InStep(i, f, k, mem[i][f][k])
    BY <2>1 DEF Good, CopyInStep
  <2>. QED BY <1>1, <1>7, <2>2
<1>9. CreateInStep(i)'
  BY <1>1, <1>2 DEF CreateInStep, InStep
<1>10. NoLocalCopy(i)'
  <2>1. label \in {"sync", "act", "account", "location"} => pc[i] \in {"sync", "act"}
    OBVIOUS
  <2>. QED BY <1>1, <1>2, <2>1 DEF Good, NoLocalCopy
<1>11. Place(i)'
  <2>1. cmd[i].op = "init" => open[i] # "local"
    BY DEF Good, Place
  <2>. QED BY <1>1, <1>2, <2>1 DEF Place
<1>12. HasAccount(i)'
  BY <1>1, <1>2 DEF HasAccount, NamesRelay, Target
<1>13. Registry(i)'
  <2>. SUFFICES ASSUME label = "act", touched[i] = {}, tornRead[i] = {}
                PROVE  /\ hasLocal[i] <=> disk["local"] # Absent
                       /\ hasLocal[i] <=> last["global"][Local] # None
    BY <1>1, <1>2 DEF Registry
  <2>. QED BY DEF Good, Registry
<1>. QED BY <1>1, <1>3, <1>4, <1>5, <1>6, <1>8, <1>9, <1>10, <1>11, <1>12, <1>13
         DEF StepIsGood, Good

\* A step that edits the copy of a file and truncates the file.
LEMMA SaveGood ==
  ASSUME Types, DiskIsLast, NEW i \in Ids, Good(i), NEW f \in Files, NEW changes,
         NEW label \in {"act", "location", "wizardNew", "done"},
         Save(i, f, changes, label), open[i] = None, pc[i] \notin {"new"} \cup Final,
         \A k \in DOMAIN changes : k \in Entries /\ changes[k] \in Values,
         f = "local" => cmd[i].op # "init" /\ label = "done",
         label = "act" => /\ pc[i] = "sync" /\ DOMAIN changes = {Local}
                          /\ touched[i] = {} /\ tornRead[i] = {} =>
                               (hasLocal[i] <=> changes[Local] # None),
         label = "location" => pc[i] \in {"act", "account"},
         label \in Wizard => /\ cmd[i].op = "setup"
                             /\ <<"global", S>> \in known[i] \cup edited'[i]
  PROVE  StepIsGood(i)
<1>. DEFINE doc == [k \in Keys |-> IF k \in DOMAIN changes THEN changes[k] ELSE mem[i][f][k]]
            own == {<<f, k>> : k \in DOMAIN changes}
<1>1. /\ pc' = [pc EXCEPT ![i] = label] /\ cmd' = cmd /\ known' = known
      /\ hasLocal' = hasLocal /\ tornRead' = tornRead
      /\ edited' = [edited EXCEPT ![i] = @ \cup own]
      /\ Truncate(i, f)
  BY DEF Save, Goto
<1>2. mem' = [mem EXCEPT ![i][f] = doc] /\ mem \in [Ids -> [Files -> Docs]]
  BY DEF Save, Types
<1>3. doc \in Docs
  <2>1. \A k \in Keys : mem[i][f][k] \in Values
    BY <1>2 DEF Docs
  <2>. QED BY <2>1 DEF Docs
<1>4. /\ mem' \in [Ids -> [Files -> Docs]] /\ mem'[i][f] = doc
      /\ \A g \in Files \ {f} : mem'[i][g] = mem[i][g]
      /\ \A j \in Ids \ {i} : mem'[j] = mem[j]
  <2>. HIDE DEF doc
  <2>. QED BY <1>2, <1>3
<1>5. /\ disk' \in [Files -> Contents] /\ last' = last
      /\ touched' \in [Ids -> SUBSET (Files \X (Keys \cup {File}))]
      /\ open' \in [Ids -> Files \cup {None}]
      /\ open'[i] = f /\ \A j \in Ids \ {i} : open'[j] = open[j]
      /\ DiskIsLast' /\ disk'[f] = Torn /\ \A g \in Files \ {f} : disk'[g] = disk[g]
      /\ touched'[i] = touched[i] /\ \A j \in Ids \ {i} : Seen(j)
  BY <1>1, TruncateEffect
<1>6. /\ pc' \in [Ids -> Labels] /\ pc'[i] = label /\ \A j \in Ids \ {i} : pc'[j] = pc[j]
  BY <1>1 DEF Types, Labels, Wizard, Final
<1>7. /\ edited' \in [Ids -> SUBSET (Files \X Entries)] /\ edited'[i] = edited[i] \cup own
      /\ \A j \in Ids \ {i} : edited'[j] = edited[j]
  <2>1. own \subseteq Files \X Entries
    OBVIOUS
  <2>. HIDE DEF own
  <2>. QED BY <1>1, <2>1 DEF Types
<1>8. Types'
  BY <1>1, <1>4, <1>5, <1>6, <1>7 DEF Types
<1>9. ASSUME NEW j \in Ids \ {i} PROVE Same(j) /\ Seen(j)
  BY <1>1, <1>4, <1>5, <1>6, <1>7 DEF Same
<1>10. Undoes(i)
  BY <1>5 DEF Undoes
<1>11. f # None
  BY Basics
<1>12. CopyInStep(i)'
  <2>. SUFFICES ASSUME NEW g \in Files, NEW k \in Keys,
                       g = "local" /\ cmd[i].op = "init" => label \in {"sync", "act"}
                PROVE  InStep(i, g, k, mem[i][g][k])'
    BY <1>1, <1>6 DEF CopyInStep, InStep
  <2>1. InStep(i, g, k, mem[i][g][k])
    BY DEF Good, CopyInStep, Live
  <2>2. CASE g = f /\ k \in DOMAIN changes
    <3>1. <<g, k>> \in edited'[i]
      BY <1>7, <2>2
    <3>. QED BY <3>1 DEF InStep
  <2>3. CASE ~(g = f /\ k \in DOMAIN changes)
    <3>1. mem'[i][g][k] = mem[i][g][k]
      BY <1>4, <2>3
    <3>. QED BY <1>1, <1>5, <1>7, <2>1, <3>1 DEF InStep
  <2>. QED BY <2>2, <2>3
<1>13. CreateInStep(i)'
  BY <1>6 DEF CreateInStep
<1>14. NoLocalCopy(i)'
  <2>1. label \in {"act", "location"} => f # "local" /\ pc[i] \in {"sync", "act", "account"}
    OBVIOUS
  <2>2. label \in {"act", "location"} => mem'[i]["local"] = mem[i]["local"]
    BY <1>4, <2>1, Basics
  <2>. QED BY <1>1, <1>6, <2>1, <2>2 DEF Good, NoLocalCopy
<1>15. Place(i)'
  BY <1>1, <1>5, <1>6, Basics DEF Place, Wizard, Files
<1>16. HasAccount(i)'
  BY <1>1, <1>6 DEF HasAccount
<1>17. Registry(i)'
  <2>. SUFFICES ASSUME label = "act", touched[i] = {}, tornRead[i] = {}
                PROVE  /\ hasLocal[i] <=> disk'["local"] # Absent
                       /\ hasLocal[i] <=> mem'[i]["global"][Local] # None
    BY <1>1, <1>5, <1>6, <1>11 DEF Registry
  <2>1. f = "global"
    BY DEF Files
  <2>2. disk'["local"] = disk["local"]
    BY <1>5, <2>1, Basics
  <2>3. mem'[i]["global"][Local] = changes[Local]
    BY <1>4, <2>1, Basics
  <2>. QED BY <2>2, <2>3 DEF Good, Registry
<1>. QED BY <1>1, <1>5, <1>8, <1>9, <1>10, <1>12, <1>13, <1>14, <1>15, <1>16, <1>17
         DEF StepIsGood, Good

\* A step that replaces or removes a file at once.
LEMMA FileStep ==
  ASSUME Types, DiskIsLast, NEW i \in Ids, NEW f \in Files, NEW label \in Labels,
         NEW content \in Contents \ {Torn}, NEW doc \in Docs, doc = Parse(content),
         Put(i, f, content, doc), Goto(i, label), UNCHANGED <<cmd, copy, open, edited>>
  PROVE  /\ Types' /\ DiskIsLast' /\ cmd' = cmd
         /\ \A j \in Ids \ {i} : Same(j) /\ Seen(j)
         /\ disk'[f] = content /\ last'[f] = doc
         /\ \A g \in Files \ {f} : disk'[g] = disk[g] /\ last'[g] = last[g]
         /\ pc'[i] = label /\ mem'[i] = mem[i] /\ known'[i] = known[i] /\ hasLocal'[i] = hasLocal[i]
         /\ open'[i] = open[i] /\ tornRead'[i] = tornRead[i] /\ edited'[i] = edited[i]
         /\ touched'[i] = touched[i]
<1>1. /\ disk' \in [Files -> Contents] /\ last' \in [Files -> Docs]
      /\ touched' \in [Ids -> SUBSET (Files \X (Keys \cup {File}))]
      /\ DiskIsLast'
      /\ disk'[f] = content /\ last'[f] = doc
      /\ \A g \in Files \ {f} : disk'[g] = disk[g] /\ last'[g] = last[g]
      /\ \A j \in Ids \ {i} : Seen(j)
      /\ content # Torn => touched'[i] = touched[i]
  BY PutEffect
<1>2. /\ cmd' = cmd /\ mem' = mem /\ known' = known /\ hasLocal' = hasLocal
      /\ tornRead' = tornRead /\ open' = open /\ edited' = edited
      /\ pc' = [pc EXCEPT ![i] = label]
  BY DEF copy, Goto
<1>3. /\ pc' \in [Ids -> Labels] /\ pc'[i] = label /\ \A j \in Ids \ {i} : pc'[j] = pc[j]
  BY <1>2 DEF Types
<1>4. Types'
  BY <1>1, <1>2, <1>3 DEF Types
<1>5. \A j \in Ids \ {i} : Same(j)
  BY <1>2, <1>3 DEF Same
<1>. QED BY <1>1, <1>2, <1>3, <1>4, <1>5

-----------------------------------------------------------------------------
(* The steps, one by one                                                   *)

\* The write that completes a save.
LEMMA WriteGood ==
  ASSUME Types, DiskIsLast, NEW i \in Ids, Good(i), Write(i)
  PROVE  StepIsGood(i)
<1>. DEFINE f == open[i]
<1>1. /\ f \in Files /\ f # None
      /\ open' = [open EXCEPT ![i] = None] /\ cmd' = cmd /\ pc' = pc /\ mem' = mem
      /\ known' = known /\ hasLocal' = hasLocal /\ tornRead' = tornRead /\ edited' = edited
  BY DEF Write, copy, Types
<1>2. mem[i][f] \in Docs
  BY <1>1 DEF Types
<1>3. PICK content \in {mem[i][f], Torn} :
        /\ content = Torn => Put(i, f, Torn, Empty)
        /\ content # Torn => content = mem[i][f] /\ Put(i, f, mem[i][f], mem[i][f])
  <2>. HIDE DEF f
  <2>1. Put(i, f, mem[i][f], mem[i][f]) \/ Put(i, f, Torn, Empty)
    BY DEF Write, f
  <2>. QED BY <1>2, <2>1, DocIsReadable
<1>4. /\ open' \in [Ids -> Files \cup {None}] /\ open'[i] = None
      /\ \A j \in Ids \ {i} : open'[j] = open[j]
  BY <1>1 DEF Types
<1>5. \A j \in Ids \ {i} : Same(j)
  BY <1>1, <1>4 DEF Same
<1>6. Place(i)'
  BY <1>1, <1>4, Basics DEF Good, Place, Files
<1>7. NoLocalCopy(i)' /\ HasAccount(i)'
  BY <1>1 DEF Good, NoLocalCopy, HasAccount, NamesRelay, Target
<1>8. Live(i) /\ (f = "local" => cmd[i].op # "init") /\ (pc[i] \in {"sync", "act"} => pc[i] = "act" /\ f = "global")
  BY <1>1 DEF Live, Good, Place
<1>9. CASE content = Torn
  <2>1. Put(i, f, Torn, Empty) /\ Torn \in Contents /\ Empty \in Docs
    BY <1>3, <1>9, Basics DEF Contents
  <2>2. /\ disk' \in [Files -> Contents] /\ last' \in [Files -> Docs]
        /\ touched' \in [Ids -> SUBSET (Files \X (Keys \cup {File}))]
        /\ DiskIsLast' /\ disk'[f] = Torn
        /\ \A g \in Files \ {f} : disk'[g] = disk[g] /\ last'[g] = last[g]
        /\ \A j \in Ids \ {i} : Seen(j)
        /\ Seen(i) /\ touched'[i] # {}
    <3>. HIDE DEF f
    <3>. QED BY <1>1, <2>1, PutEffect
  <2>3. ASSUME NEW g \in Files, NEW k \in Keys, NEW v, InStep(i, g, k, v) PROVE InStep(i, g, k, v)'
    BY <1>1, <2>2, <2>3 DEF InStep, Seen
  <2>4. CopyInStep(i)'
    <3>. SUFFICES ASSUME NEW g \in Files, NEW k \in Keys,
                         g = "local" /\ cmd[i].op = "init" => pc[i] \in {"sync", "act"}
                  PROVE  InStep(i, g, k, mem[i][g][k])'
      BY <1>1 DEF CopyInStep, InStep
    <3>1. InStep(i, g, k, mem[i][g][k])
      BY <1>8 DEF Good, CopyInStep
    <3>. QED BY <1>1, <2>3, <3>1
  <2>5. CreateInStep(i)'
    <3>. SUFFICES ASSUME pc[i] = "create", NEW k \in Keys PROVE InStep(i, "local", k, Empty[k])'
      BY <1>1 DEF CreateInStep, InStep
    <3>1. InStep(i, "local", k, Empty[k])
      BY DEF Good, CreateInStep
    <3>. QED BY <2>3, <3>1, Basics
  <2>6. Registry(i)'
    BY <2>2 DEF Registry
  <2>7. Undoes(i)
    <3>. HIDE DEF f
    <3>. QED BY <2>2 DEF Undoes
  <2>8. Types'
    BY <1>1, <1>4, <2>2 DEF Types
  <2>. QED BY <1>1, <1>5, <1>6, <1>7, <2>2, <2>4, <2>5, <2>6, <2>7, <2>8 DEF StepIsGood, Good
<1>10. CASE content # Torn
  <2>1. /\ Put(i, f, mem[i][f], mem[i][f]) /\ mem[i][f] \in Contents
        /\ mem[i][f] # Torn /\ mem[i][f] = Parse(mem[i][f])
    BY <1>2, <1>3, <1>10, DocIsReadable DEF Contents
  <2>2. /\ disk' \in [Files -> Contents] /\ last' \in [Files -> Docs]
        /\ touched' \in [Ids -> SUBSET (Files \X (Keys \cup {File}))]
        /\ DiskIsLast' /\ last'[f] = mem[i][f]
        /\ \A g \in Files \ {f} : disk'[g] = disk[g] /\ last'[g] = last[g]
        /\ \A j \in Ids \ {i} : Seen(j)
        /\ touched'[i] = touched[i]
    <3>. HIDE DEF f
    <3>. QED BY <1>1, <1>2, <2>1, PutEffect
  <2>3. \A g \in Files, k \in Keys :
          (g = "local" /\ cmd[i].op = "init" => pc[i] \in {"sync", "act"}) =>
             InStep(i, g, k, mem[i][g][k])
    BY <1>8 DEF Good, CopyInStep
  <2>4. CopyInStep(i)'
    <3>. SUFFICES ASSUME NEW g \in Files, NEW k \in Keys,
                         g = "local" /\ cmd[i].op = "init" => pc[i] \in {"sync", "act"}
                  PROVE  InStep(i, g, k, mem[i][g][k])'
      BY <1>1 DEF CopyInStep, InStep
    <3>1. CASE g = f BY <1>1, <2>2, <3>1 DEF InStep
    <3>2. CASE g # f BY <1>1, <2>2, <2>3, <3>2 DEF InStep
    <3>. QED BY <3>1, <3>2
  <2>5. CreateInStep(i)'
    <3>. SUFFICES ASSUME pc[i] = "create", NEW k \in Keys PROVE InStep(i, "local", k, Empty[k])'
      BY <1>1 DEF CreateInStep, InStep
    <3>1. InStep(i, "local", k, Empty[k]) /\ f # "local"
      BY <1>8 DEF Good, CreateInStep, Place
    <3>. QED BY <1>1, <2>2, <3>1, Basics DEF InStep
  <2>6. Registry(i)'
    <3>. SUFFICES ASSUME pc[i] \in {"sync", "act"}, touched[i] = {}, tornRead[i] = {}
                  PROVE  /\ hasLocal[i] <=> disk'["local"] # Absent
                         /\ hasLocal[i] <=> last'["global"][Local] # None
      BY <1>1, <1>4, <2>2 DEF Registry
    <3>1. pc[i] = "act" /\ f = "global" /\ "global" # "local"
      BY <1>8
    <3>2. disk'["local"] = disk["local"] /\ last'["global"] = mem[i]["global"]
      BY <2>2, <3>1, Basics
    <3>. QED BY <1>1, <3>1, <3>2 DEF Good, Registry
  <2>7. Undoes(i)
    <3>. SUFFICES ASSUME NEW g \in Files, NEW k \in Keys, last'[g][k] # last[g][k]
                  PROVE  <<g, k>> \in edited[i] \cup touched[i] \/ g \in tornRead[i]
      BY <1>1 DEF Undoes
    <3>1. g = f
      BY <2>2
    <3>2. InStep(i, g, k, mem[i][g][k])
      BY <1>8, <2>3, <3>1
    <3>. QED BY <2>2, <3>1, <3>2 DEF InStep
  <2>8. Types'
    BY <1>1, <1>4, <2>2 DEF Types
  <2>. QED BY <1>1, <1>5, <1>6, <1>7, <2>2, <2>4, <2>5, <2>6, <2>7, <2>8 DEF StepIsGood, Good
<1>. QED BY <1>9, <1>10

\* The process is killed, perhaps before it has written.
LEMMA KillGood ==
  ASSUME Types, DiskIsLast, NEW i \in Ids, Kill(i)
  PROVE  StepIsGood(i)
<1>. DEFINE f == open[i]
<1>1. /\ open' = [open EXCEPT ![i] = None] /\ cmd' = cmd /\ pc' = [pc EXCEPT ![i] = "killed"]
      /\ mem' = mem /\ known' = known /\ hasLocal' = hasLocal /\ tornRead' = tornRead
      /\ edited' = edited
  BY DEF Kill, copy, Goto
<1>2. /\ open' \in [Ids -> Files \cup {None}] /\ pc' \in [Ids -> Labels]
      /\ open'[i] = None /\ pc'[i] = "killed"
      /\ \A j \in Ids \ {i} : open'[j] = open[j] /\ pc'[j] = pc[j]
  BY <1>1 DEF Types, Labels, Final
<1>3. Good(i)'
  <2>1. CopyInStep(i)'
    BY <1>2 DEF CopyInStep, Live, Final
  <2>2. CreateInStep(i)' /\ NoLocalCopy(i)' /\ HasAccount(i)' /\ Registry(i)'
    BY <1>2 DEF CreateInStep, NoLocalCopy, HasAccount, Registry, Wizard
  <2>3. Place(i)'
    BY <1>2, Basics DEF Place, Wizard
  <2>. QED BY <2>1, <2>2, <2>3 DEF Good
<1>4. \A j \in Ids \ {i} : Same(j)
  BY <1>1, <1>2 DEF Same
<1>5. CASE open[i] # None /\ disk[open[i]] = Torn
  <2>1. f \in Files /\ Put(i, f, Torn, Empty) /\ Torn \in Contents /\ Empty \in Docs
    BY <1>5, Basics DEF Kill, Contents, Types
  <2>2. /\ disk' \in [Files -> Contents] /\ last' \in [Files -> Docs]
        /\ touched' \in [Ids -> SUBSET (Files \X (Keys \cup {File}))]
        /\ DiskIsLast' /\ disk'[f] = Torn
        /\ \A g \in Files \ {f} : disk'[g] = disk[g] /\ last'[g] = last[g]
        /\ \A j \in Ids \ {i} : Seen(j)
    <3>. HIDE DEF f
    <3>. QED BY <2>1, PutEffect
  <2>3. Undoes(i)
    <3>. HIDE DEF f
    <3>. QED BY <2>2 DEF Undoes
  <2>4. Types'
    BY <1>1, <1>2, <2>2 DEF Types
  <2>. QED BY <1>1, <1>3, <1>4, <2>2, <2>3, <2>4 DEF StepIsGood
<1>6. CASE ~(open[i] # None /\ disk[open[i]] = Torn)
  <2>1. disk' = disk /\ last' = last /\ touched' = touched
    BY <1>6 DEF Kill, store
  <2>2. Types'
    BY <1>1, <1>2, <2>1 DEF Types
  <2>3. DiskIsLast' /\ Undoes(i) /\ \A j \in Ids \ {i} : Seen(j)
    BY <2>1 DEF DiskIsLast, Parse, Undoes, Seen
  <2>. QED BY <1>1, <1>3, <1>4, <2>2, <2>3 DEF StepIsGood
<1>. QED BY <1>5, <1>6

\* A command reads the files.
LEMMA StartGood ==
  ASSUME Types, DiskIsLast, NEW i \in Ids, Good(i), Start(i)
  PROVE  StepIsGood(i)
<1>. DEFINE read == [f \in Files |-> Parse(disk[f])]
            found == {e \in Files \X Keys : Parse(disk[e[1]])[e[2]] # None}
            torn == {f \in Files : disk[f] = Torn}
<1>1. /\ pc[i] = "new" /\ disk' = disk /\ last' = last /\ cmd' = cmd /\ open' = open /\ edited' = edited
      /\ mem' = [mem EXCEPT ![i] = read] /\ known' = [known EXCEPT ![i] = found]
      /\ hasLocal' = [hasLocal EXCEPT ![i] = disk["local"] # Absent]
      /\ tornRead' = [tornRead EXCEPT ![i] = torn] /\ touched' = [touched EXCEPT ![i] = {}]
      /\ pc' = [pc EXCEPT ![i] = "sync"]
  BY DEF Start, Goto
<1>2. read \in [Files -> Docs] /\ found \in SUBSET (Files \X Keys) /\ torn \in SUBSET Files
  BY Basics DEF Types
<1>3. /\ mem' \in [Ids -> [Files -> Docs]] /\ mem'[i] = read
      /\ known' \in [Ids -> SUBSET (Files \X Keys)]
      /\ tornRead' \in [Ids -> SUBSET Files] /\ tornRead'[i] = torn
      /\ \A j \in Ids \ {i} : mem'[j] = mem[j] /\ known'[j] = known[j] /\ tornRead'[j] = tornRead[j]
  <2>. HIDE DEF read, found, torn
  <2>. QED BY <1>1, <1>2 DEF Types
<1>4. /\ hasLocal' \in [Ids -> BOOLEAN] /\ hasLocal'[i] = (disk["local"] # Absent)
      /\ touched' \in [Ids -> SUBSET (Files \X (Keys \cup {File}))] /\ touched'[i] = {}
      /\ pc' \in [Ids -> Labels] /\ pc'[i] = "sync"
      /\ \A j \in Ids \ {i} : hasLocal'[j] = hasLocal[j] /\ touched'[j] = touched[j] /\ pc'[j] = pc[j]
  BY <1>1 DEF Types, Labels
<1>5. Types'
  BY <1>1, <1>3, <1>4 DEF Types
<1>6. DiskIsLast' /\ Undoes(i) /\ \A j \in Ids \ {i} : Same(j) /\ Seen(j)
  BY <1>1, <1>3, <1>4 DEF DiskIsLast, Parse, Undoes, Same, Seen
<1>7. open[i] = None /\ edited[i] = {}
  BY <1>1 DEF Good, Place
<1>8. CopyInStep(i)'
  <2>. SUFFICES ASSUME NEW f \in Files, NEW k \in Keys PROVE InStep(i, f, k, mem[i][f][k])'
    BY DEF CopyInStep, InStep
  <2>1. CASE disk[f] = Torn BY <1>3, <2>1 DEF InStep
  <2>2. CASE disk[f] # Torn
    <3>1. mem'[i][f] = last[f]
      BY <1>3, <2>2 DEF DiskIsLast
    <3>. QED BY <1>1, <3>1 DEF InStep
  <2>. QED BY <2>1, <2>2
<1>9. NoLocalCopy(i)'
  <2>1. disk["local"] = Absent => mem'[i]["local"] = Empty
    BY <1>3, Basics DEF Parse
  <2>. QED BY <1>4, <2>1 DEF NoLocalCopy
<1>10. CreateInStep(i)' /\ HasAccount(i)' /\ Registry(i)'
  BY <1>1, <1>4 DEF CreateInStep, HasAccount, Registry, Wizard
<1>11. Place(i)'
  BY <1>1, <1>4, <1>7, Basics DEF Place, Wizard
<1>. QED BY <1>1, <1>5, <1>6, <1>8, <1>9, <1>10, <1>11 DEF StepIsGood, Good

\* The sync of the registry.
LEMMA SyncGood ==
  ASSUME Types, DiskIsLast, NEW i \in Ids, Good(i), Sync(i)
  PROVE  StepIsGood(i)
<1>. DEFINE stale == mem[i]["global"][Local] # None /\ disk["local"] = Absent
            missing == hasLocal[i] /\ (stale \/ mem[i]["global"][Local] = None)
            entry == [k \in {Local} |-> IF missing THEN i ELSE None]
<1>1. pc[i] = "sync" /\ open[i] = None /\ edited[i] = {}
  BY DEF Sync, At, Good, Place
<1>2. ASSUME touched[i] = {}, tornRead[i] = {}
      PROVE  /\ hasLocal[i] <=> disk["local"] # Absent
             /\ mem[i]["global"][Local] = last["global"][Local]
  <2>1. hasLocal[i] <=> disk["local"] # Absent
    BY <1>1, <1>2 DEF Good, Registry
  <2>2. InStep(i, "global", Local, mem[i]["global"][Local])
    BY <1>1, Basics DEF Good, CopyInStep, Live, Final
  <2>. QED BY <1>1, <1>2, <2>1, <2>2 DEF InStep
<1>3. CASE (stale \/ missing) /\ Save(i, "global", entry, "act")
  <2>1. DOMAIN entry = {Local} /\ entry[Local] = (IF missing THEN i ELSE None)
    OBVIOUS
  <2>2. \A k \in DOMAIN entry : k \in Entries /\ entry[k] \in Values
    BY <2>1, Basics
  <2>3. touched[i] = {} /\ tornRead[i] = {} => (hasLocal[i] <=> entry[Local] # None)
    BY <1>2, <1>3, <2>1, Basics
  <2>. HIDE DEF entry, missing, stale
  <2>4. Save(i, "global", entry, "act")
    BY <1>3
  <2>5. pc[i] \notin {"new"} \cup Final
    BY <1>1 DEF Final
  <2>. QED BY <1>1, <2>1, <2>2, <2>3, <2>4, <2>5, Basics, SaveGood DEF Wizard
<1>4. CASE ~stale /\ ~missing /\ Go(i, "act")
  <2>1. touched[i] = {} /\ tornRead[i] = {} => (hasLocal[i] <=> last["global"][Local] # None)
    BY <1>2, <1>4
  <2>2. "act" \in Labels \ {"new", "sync"} /\ "act" \notin Wizard /\ pc[i] \notin {"new"} \cup Final
    BY <1>1 DEF Labels, Wizard, Final
  <2>. QED BY <1>1, <1>4, <2>1, <2>2, GoGood
<1>. QED BY <1>3, <1>4 DEF Sync

\* A command that ends, for whatever reason.
LEMMA EndGood ==
  ASSUME Types, DiskIsLast, NEW i \in Ids, Good(i), NEW label \in Final,
         NEW from \in Labels \ ({"new"} \cup Final), At(i, from), Go(i, label),
         label = "rejected" => <<"global", S>> \in edited[i] \/ NamesRelay(i)
  PROVE  StepIsGood(i)
<1>1. label \in Labels \ {"new", "sync"} /\ label \notin Wizard
      /\ label \notin {"act", "confirm", "create", "register", "account", "location"}
  BY DEF Labels, Wizard, Final
<1>2. open[i] = None /\ pc[i] \notin {"new"} \cup Final
  BY DEF At
<1>. QED BY <1>1, <1>2, GoGood

\* A command that saves a file and is done.
LEMMA SaveLast ==
  ASSUME Types, DiskIsLast, NEW i \in Ids, Good(i), NEW f \in Files, NEW changes,
         NEW from \in Labels \ ({"new"} \cup Final), At(i, from), Save(i, f, changes, "done"),
         \A k \in DOMAIN changes : k \in Entries /\ changes[k] \in Values,
         f = "local" => cmd[i].op # "init"
  PROVE  StepIsGood(i)
<1>1. open[i] = None /\ pc[i] \notin {"new"} \cup Final /\ "done" \notin Wizard
  BY DEF At, Wizard
<1>. QED BY <1>1, SaveGood

\* The commands, and the entry an edit changes.
LEMMA CommandTypes ==
  ASSUME Types, NEW i \in Ids
  PROVE  /\ cmd[i].profile \in Profiles /\ cmd[i].profile \in Values
         /\ P(cmd[i].profile) \in Entries /\ R(cmd[i].profile) \in Entries
         /\ Scope(i) \in Files
         /\ Named(i) \in Values
<1>1. cmd[i] \in [op : Ops, profile : Profiles, global : BOOLEAN, force : BOOLEAN, relay : BOOLEAN]
  BY DEF Types, Commands
<1>2. cmd[i].profile \in Profiles /\ cmd[i].profile \in Values
  BY <1>1 DEF Values
<1>3. Scope(i) \in Files
  BY DEF Scope, Files
<1>4. mem[i][Scope(i)][Default] \in Values
  BY <1>3, Basics DEF Types, Docs
<1>. QED BY <1>2, <1>3, <1>4, Basics DEF Named

\* An edit changes one entry.
LEMMA EditIsOne ==
  ASSUME NEW k \in Entries, NEW v \in Values
  PROVE  \A x \in DOMAIN Edit(k, v) : x \in Entries /\ Edit(k, v)[x] \in Values
BY DEF Edit

\* The entries of a new account.
LEMMA AccountTypes ==
  ASSUME Types, NEW i \in Ids
  PROVE  /\ DOMAIN Account(i) = {S, Active}
         /\ \A x \in DOMAIN Account(i) : x \in Entries /\ Account(i)[x] \in Values
<1>1. DOMAIN Account(i) = {S, Active}
  BY DEF Account
<1>2. mem[i]["global"][Active] \in Values
  BY Basics DEF Types, Docs
<1>. QED BY <1>1, <1>2, Basics DEF Account

\* Where a command acts, it does so with no file open.
LEMMA ActFacts ==
  /\ \A l \in {"act", "proxy", "confirm", "account", "create", "register"} \cup Wizard :
       l \in Labels \ ({"new"} \cup Final)
  /\ {"failed", "done", "rejected", "refused"} \subseteq Final
  /\ {"done", "failed", "proxy", "confirm", "account", "create"} \cap Wizard = {}
  /\ {"proxy", "confirm", "account", "create", "location", "wizard", "wizardLocal"}
       \subseteq Labels \ {"new", "sync"}
BY DEF Labels, Wizard, Final

\* config set, http, profile use, relay use, auth and register.
LEMMA EditorsGood ==
  ASSUME Types, DiskIsLast, NEW i \in Ids, Good(i),
         Set(i) \/ Http(i) \/ HttpAnswer(i) \/ Use(i) \/ UseRelay(i) \/ Auth(i)
           \/ Register(i) \/ RegisterAnswer(i)
  PROVE  StepIsGood(i)
<1>1. /\ cmd[i].profile \in Values /\ P(cmd[i].profile) \in Entries
      /\ Scope(i) \in Files /\ P(Named(i)) \in Entries /\ i \in Values /\ Server \in Values
      /\ Default \in Entries /\ Active \in Entries /\ S \in Entries /\ "global" \in Files
  BY CommandTypes, Basics
<1>2. CASE Set(i)
  <2>1. At(i, "act") /\ cmd[i].op = "set" /\ Save(i, Scope(i), Setting(i), "done")
    BY <1>2 DEF Set, Is
  <2>2. \A x \in DOMAIN Setting(i) : x \in Entries /\ Setting(i)[x] \in Values
    <3>1. DOMAIN Setting(i) \subseteq {P(Named(i)), R(Named(i))}
      BY DEF Setting
    <3>2. \A x \in DOMAIN Setting(i) : Setting(i)[x] \in {i, Elsewhere}
      BY DEF Setting
    <3>3. R(Named(i)) \in Entries /\ Elsewhere \in Values
      BY CommandTypes, Basics DEF Values
    <3>. QED BY <1>1, <3>1, <3>2, <3>3
  <2>. QED BY <1>1, <2>1, <2>2, ActFacts, SaveLast
<1>3. CASE Http(i)
  <2>1. At(i, "act") /\ (Go(i, "proxy") \/ Go(i, "failed"))
    BY <1>3 DEF Http, Is, Fail
  <2>2. CASE Go(i, "proxy")
    <3>1. open[i] = None /\ pc[i] \notin {"new"} \cup Final
      BY <2>1, ActFacts DEF At
    <3>2. "proxy" \in Labels \ {"new", "sync"} /\ "proxy" \notin Wizard
      BY ActFacts
    <3>. QED BY <2>2, <3>1, <3>2, GoGood
  <2>3. CASE Go(i, "failed")
    BY <2>1, <2>3, ActFacts, EndGood
  <2>. QED BY <2>1, <2>2, <2>3
<1>4. CASE HttpAnswer(i)
  <2>1. At(i, "proxy") /\ cmd[i].op = "http"
    BY <1>4 DEF HttpAnswer
  <2>2. CASE Save(i, Scope(i), Edit(P(cmd[i].profile), i), "done")
    <3>1. \A x \in DOMAIN Edit(P(cmd[i].profile), i) :
            x \in Entries /\ Edit(P(cmd[i].profile), i)[x] \in Values
      BY <1>1, EditIsOne
    <3>. QED BY <1>1, <2>1, <2>2, <3>1, ActFacts, SaveLast
  <2>3. CASE Fail(i)
    <3>1. Go(i, "failed")
      BY <2>3 DEF Fail
    <3>. QED BY <2>1, <3>1, ActFacts, EndGood
  <2>. QED BY <1>4, <2>2, <2>3 DEF HttpAnswer
<1>5. CASE Use(i)
  <2>1. At(i, "act") /\ cmd[i].op = "use"
    BY <1>5 DEF Use, Is
  <2>2. CASE Save(i, Scope(i), Edit(Default, cmd[i].profile), "done")
    <3>1. \A x \in DOMAIN Edit(Default, cmd[i].profile) :
            x \in Entries /\ Edit(Default, cmd[i].profile)[x] \in Values
      BY <1>1, EditIsOne
    <3>. QED BY <1>1, <2>1, <2>2, <3>1, ActFacts, SaveLast
  <2>3. CASE Fail(i)
    <3>1. Go(i, "failed")
      BY <2>3 DEF Fail
    <3>. QED BY <2>1, <3>1, ActFacts, EndGood
  <2>. QED BY <1>5, <2>2, <2>3 DEF Use
<1>6. CASE UseRelay(i)
  <2>1. At(i, "act") /\ cmd[i].op = "relay"
    BY <1>6 DEF UseRelay, Is
  <2>2. CASE Save(i, "global", Edit(Active, Server), "done")
    <3>1. \A x \in DOMAIN Edit(Active, Server) : x \in Entries /\ Edit(Active, Server)[x] \in Values
      BY <1>1, EditIsOne
    <3>. QED BY <1>1, <2>1, <2>2, <3>1, ActFacts, SaveLast
  <2>3. CASE Fail(i)
    <3>1. Go(i, "failed")
      BY <2>3 DEF Fail
    <3>. QED BY <2>1, <3>1, ActFacts, EndGood
  <2>. QED BY <1>6, <2>2, <2>3 DEF UseRelay
<1>7. CASE Auth(i)
  <2>1. At(i, "act") /\ Save(i, "global", Edit(S, i), "done")
    BY <1>7 DEF Auth, Is
  <2>2. \A x \in DOMAIN Edit(S, i) : x \in Entries /\ Edit(S, i)[x] \in Values
    BY <1>1, EditIsOne
  <2>. QED BY <1>1, <2>1, <2>2, ActFacts, SaveLast
<1>8. CASE Register(i)
  <2>1. At(i, "act") /\ (Go(i, "account") \/ Go(i, "failed"))
    BY <1>8 DEF Register, Is, Fail
  <2>2. CASE Go(i, "account")
    <3>1. open[i] = None /\ pc[i] = "act" /\ pc[i] \notin {"new"} \cup Final
      BY <2>1, ActFacts DEF At
    <3>2. "account" \in Labels \ {"new", "sync"} /\ "account" \notin Wizard
      BY ActFacts
    <3>. QED BY <2>2, <3>1, <3>2, GoGood
  <2>3. CASE Go(i, "failed")
    BY <2>1, <2>3, ActFacts, EndGood
  <2>. QED BY <2>1, <2>2, <2>3
<1>9. CASE RegisterAnswer(i)
  <2>1. At(i, "account")
    BY <1>9 DEF RegisterAnswer
  <2>2. CASE Save(i, "global", Account(i), "done")
    BY <1>1, <2>1, <2>2, AccountTypes, ActFacts, SaveLast
  <2>3. CASE Fail(i)
    <3>1. Go(i, "failed")
      BY <2>3 DEF Fail
    <3>. QED BY <2>1, <3>1, ActFacts, EndGood
  <2>. QED BY <1>9, <2>2, <2>3 DEF RegisterAnswer
<1>. QED BY <1>2, <1>3, <1>4, <1>5, <1>6, <1>7, <1>8, <1>9

\* profile delete and config delete, once confirmed.
LEMMA EraseGood ==
  ASSUME Types, DiskIsLast, NEW i \in Ids, Good(i), NEW from \in {"act", "confirm"}, At(i, from),
         cmd[i].op \in {"delete", "remove"}, Erase(i)
  PROVE  StepIsGood(i)
<1>1. /\ P(cmd[i].profile) \in Entries /\ R(cmd[i].profile) \in Entries
      /\ Scope(i) \in Files /\ None \in Values
      /\ from \in Labels \ ({"new"} \cup Final)
  BY CommandTypes, Basics, ActFacts
<1>2. CASE Save(i, Scope(i), NoProfile(i), "done")
  <2>1. \A x \in DOMAIN NoProfile(i) : x \in Entries /\ NoProfile(i)[x] \in Values
    BY <1>1 DEF NoProfile
  <2>. QED BY <1>1, <1>2, <2>1, SaveLast
<1>3. CASE Fail(i)
  <2>1. Go(i, "failed")
    BY <1>3 DEF Fail
  <2>. QED BY <1>1, <2>1, ActFacts, EndGood
<1>4. CASE /\ cmd[i].op # "delete" /\ Put(i, Scope(i), Absent, Empty)
           /\ Goto(i, "done") /\ UNCHANGED <<cmd, copy, open, edited>>
  <2>1. /\ Absent \in Contents \ {Torn} /\ Empty \in Docs /\ Empty = Parse(Absent)
        /\ "done" \in Labels
    BY Basics, ConfigAssumption DEF Contents, Parse, Labels, Final
  <2>2. /\ Types' /\ DiskIsLast' /\ cmd' = cmd
        /\ \A j \in Ids \ {i} : Same(j) /\ Seen(j)
        /\ disk'[Scope(i)] = Absent
        /\ \A g \in Files \ {Scope(i)} : disk'[g] = disk[g] /\ last'[g] = last[g]
        /\ pc'[i] = "done" /\ open'[i] = open[i]
    BY <1>1, <1>4, <2>1, FileStep
  <2>3. open[i] = None /\ cmd[i].op = "remove"
    BY <1>4 DEF At
  <2>4. Undoes(i)
    BY <2>2, <2>3 DEF Undoes
  <2>5. CopyInStep(i)'
    BY <2>2, <2>3 DEF CopyInStep, Live, Final
  <2>6. CreateInStep(i)' /\ NoLocalCopy(i)' /\ HasAccount(i)' /\ Registry(i)'
    BY <2>2 DEF CreateInStep, NoLocalCopy, HasAccount, Registry, Wizard
  <2>7. Place(i)'
    BY <2>2, <2>3, Basics DEF Place, Wizard
  <2>. QED BY <2>2, <2>4, <2>5, <2>6, <2>7 DEF StepIsGood, Good
<1>. QED BY <1>2, <1>3, <1>4 DEF Erase

\* profile delete and config delete.
LEMMA DeleteGood ==
  ASSUME Types, DiskIsLast, NEW i \in Ids, Good(i), Delete(i) \/ Confirm(i)
  PROVE  StepIsGood(i)
<1>1. CASE Delete(i)
  <2>1. At(i, "act") /\ cmd[i].op \in {"delete", "remove"}
    BY <1>1 DEF Delete, Is
  <2>2. CASE Fail(i)
    <3>1. Go(i, "failed")
      BY <2>2 DEF Fail
    <3>. QED BY <2>1, <3>1, ActFacts, EndGood
  <2>3. CASE Erase(i)
    BY <2>1, <2>3, EraseGood
  <2>4. CASE Go(i, "confirm")
    <3>1. open[i] = None /\ pc[i] \notin {"new"} \cup Final
      BY <2>1, ActFacts DEF At
    <3>2. "confirm" \in Labels \ {"new", "sync"} /\ "confirm" \notin Wizard
      BY ActFacts
    <3>. QED BY <2>1, <2>4, <3>1, <3>2, GoGood
  <2>. QED BY <1>1, <2>2, <2>3, <2>4 DEF Delete
<1>2. CASE Confirm(i)
  <2>1. At(i, "confirm") /\ cmd[i].op \in {"delete", "remove"}
    BY <1>2 DEF Confirm, At, Good, Place
  <2>2. CASE Fail(i)
    <3>1. Go(i, "failed")
      BY <2>2 DEF Fail
    <3>. QED BY <2>1, <3>1, ActFacts, EndGood
  <2>3. CASE Erase(i)
    BY <2>1, <2>3, EraseGood
  <2>. QED BY <1>2, <2>2, <2>3 DEF Confirm
<1>. QED BY <1>1, <1>2

\* The local file is created with nothing in it.
LEMMA CreateGood ==
  ASSUME Types, DiskIsLast, NEW i \in Ids, Good(i), NEW label \in {"register", "wizardLocal"},
         Create(i, label), open[i] = None, pc[i] \notin {"new"} \cup Final,
         label = "register" => cmd[i].op = "init",
         label = "wizardLocal" => /\ cmd[i].op = "setup" /\ mem[i]["local"] = Empty
                                  /\ <<"global", S>> \in known[i] \cup edited[i],
         \A k \in Keys : InStep(i, "local", k, Empty[k])
  PROVE  StepIsGood(i)
<1>1. /\ Empty \in Contents \ {Torn} /\ Empty \in Docs /\ Empty = Parse(Empty)
      /\ label \in Labels /\ "local" \in Files
  BY Basics, DocIsReadable DEF Contents, Labels, Wizard
<1>2. /\ Types' /\ DiskIsLast' /\ cmd' = cmd
      /\ \A j \in Ids \ {i} : Same(j) /\ Seen(j)
      /\ last'["local"] = Empty
      /\ \A g \in Files \ {"local"} : disk'[g] = disk[g] /\ last'[g] = last[g]
      /\ pc'[i] = label /\ mem'[i] = mem[i] /\ known'[i] = known[i] /\ hasLocal'[i] = hasLocal[i]
      /\ open'[i] = open[i] /\ tornRead'[i] = tornRead[i] /\ edited'[i] = edited[i]
      /\ touched'[i] = touched[i]
  BY <1>1, FileStep DEF Create
<1>3. Undoes(i)
  <2>. SUFFICES ASSUME NEW f \in Files, NEW k \in Keys, last'[f][k] # last[f][k]
                PROVE  <<f, k>> \in edited[i] \cup touched[i] \/ f \in tornRead[i]
    BY <1>2 DEF Undoes
  <2>1. f = "local"
    BY <1>2
  <2>. QED BY <1>2, <2>1 DEF InStep
<1>4. CopyInStep(i)'
  <2>. SUFFICES ASSUME NEW f \in Files, NEW k \in Keys,
                       f = "local" /\ cmd[i].op = "init" => label \in {"sync", "act"}
                PROVE  InStep(i, f, k, mem[i][f][k])'
    BY <1>2 DEF CopyInStep, InStep
  <2>1. CASE f = "local"
    BY <1>2, <2>1 DEF InStep
  <2>2. CASE f # "local"
    <3>1. InStep(i, f, k, mem[i][f][k])
      BY <2>2 DEF Good, CopyInStep, Live
    <3>. QED BY <1>2, <2>2, <3>1 DEF InStep
  <2>. QED BY <2>1, <2>2
<1>5. CreateInStep(i)' /\ NoLocalCopy(i)' /\ Registry(i)'
  BY <1>2 DEF CreateInStep, NoLocalCopy, Registry
<1>6. HasAccount(i)'
  BY <1>2 DEF HasAccount, Wizard
<1>7. Place(i)'
  BY <1>2, Basics DEF Place, Wizard
<1>. QED BY <1>2, <1>3, <1>4, <1>5, <1>6, <1>7 DEF StepIsGood, Good

\* init: the local file is removed, created and registered.
LEMMA InitCommandGood ==
  ASSUME Types, DiskIsLast, NEW i \in Ids, Good(i),
         InitLocal(i) \/ InitCreate(i) \/ InitRegister(i)
  PROVE  StepIsGood(i)
<1>1. CASE InitLocal(i)
  <2>1. At(i, "act") /\ cmd[i].op = "init" /\ open[i] = None /\ pc[i] = "act"
        /\ pc[i] \notin {"new"} \cup Final
    BY <1>1, ActFacts DEF InitLocal, Is, At
  <2>2. CASE ~hasLocal[i] /\ Go(i, "create")
    <3>1. ASSUME NEW k \in Keys PROVE InStep(i, "local", k, Empty[k])
      <4>1. mem[i]["local"] = Empty
        BY <2>1, <2>2 DEF Good, NoLocalCopy
      <4>2. InStep(i, "local", k, mem[i]["local"][k])
        BY <2>1, Basics DEF Good, CopyInStep, Live
      <4>. QED BY <4>1, <4>2
    <3>2. "create" \in Labels \ {"new", "sync"} /\ "create" \notin Wizard
      BY ActFacts
    <3>. QED BY <2>1, <2>2, <3>1, <3>2, GoGood
  <2>3. CASE Fail(i)
    <3>1. Go(i, "failed")
      BY <2>3 DEF Fail
    <3>. QED BY <2>1, <3>1, ActFacts, EndGood
  <2>4. CASE /\ Put(i, "local", Absent, Empty) /\ Goto(i, "create")
             /\ UNCHANGED <<cmd, copy, open, edited>>
    <3>1. /\ Absent \in Contents \ {Torn} /\ Empty \in Docs /\ Empty = Parse(Absent)
          /\ "create" \in Labels /\ "local" \in Files
      BY Basics, ConfigAssumption DEF Contents, Parse, Labels
    <3>2. /\ Types' /\ DiskIsLast' /\ cmd' = cmd
          /\ \A j \in Ids \ {i} : Same(j) /\ Seen(j)
          /\ disk'["local"] = Absent /\ last'["local"] = Empty
          /\ \A g \in Files \ {"local"} : disk'[g] = disk[g] /\ last'[g] = last[g]
          /\ pc'[i] = "create" /\ mem'[i] = mem[i] /\ open'[i] = open[i]
          /\ tornRead'[i] = tornRead[i] /\ edited'[i] = edited[i] /\ touched'[i] = touched[i]
      BY <2>4, <3>1, FileStep
    <3>3. Undoes(i)
      BY <2>1, <3>2 DEF Undoes
    <3>4. CopyInStep(i)'
      <4>. SUFFICES ASSUME NEW f \in Files, NEW k \in Keys, f # "local"
                    PROVE  InStep(i, f, k, mem[i][f][k])'
        BY <2>1, <3>2 DEF CopyInStep, InStep
      <4>1. InStep(i, f, k, mem[i][f][k])
        BY <2>1 DEF Good, CopyInStep, Live
      <4>. QED BY <3>2, <4>1 DEF InStep
    <3>5. CreateInStep(i)'
      BY <3>2 DEF CreateInStep, InStep, Empty
    <3>6. NoLocalCopy(i)' /\ HasAccount(i)' /\ Registry(i)'
      BY <3>2 DEF NoLocalCopy, HasAccount, Registry, Wizard
    <3>7. Place(i)'
      BY <2>1, <3>2, Basics DEF Place, Wizard
    <3>. QED BY <3>2, <3>3, <3>4, <3>5, <3>6, <3>7 DEF StepIsGood, Good
  <2>. QED BY <1>1, <2>2, <2>3, <2>4 DEF InitLocal
<1>2. CASE InitCreate(i)
  <2>1. At(i, "create") /\ Create(i, "register") /\ cmd[i].op = "init"
    BY <1>2 DEF InitCreate, At, Good, Place
  <2>2. open[i] = None /\ pc[i] = "create" /\ pc[i] \notin {"new"} \cup Final
    BY <2>1, ActFacts DEF At
  <2>3. \A k \in Keys : InStep(i, "local", k, Empty[k])
    BY <2>2 DEF Good, CreateInStep
  <2>. QED BY <2>1, <2>2, <2>3, CreateGood
<1>3. CASE InitRegister(i)
  <2>1. At(i, "register") /\ Save(i, "global", Edit(Local, i), "done")
    BY <1>3 DEF InitRegister
  <2>2. Local \in Entries /\ i \in Values /\ "global" \in Files
    BY Basics
  <2>3. \A x \in DOMAIN Edit(Local, i) : x \in Entries /\ Edit(Local, i)[x] \in Values
    BY <2>2, EditIsOne
  <2>. QED BY <2>1, <2>2, <2>3, ActFacts, SaveLast
<1>. QED BY <1>1, <1>2, <1>3

\* A wizard that goes on after a save, with an account to its name.
LEMMA WizardSave ==
  ASSUME Types, DiskIsLast, NEW i \in Ids, Good(i), NEW changes,
         NEW label \in {"location", "wizardNew"}, Save(i, "global", changes, label), open[i] = None,
         pc[i] \notin {"new"} \cup Final, cmd[i].op = "setup",
         \A k \in DOMAIN changes : k \in Entries /\ changes[k] \in Values,
         label = "location" => pc[i] \in {"act", "account"},
         <<"global", S>> \in known[i] \cup edited[i] \/ S \in DOMAIN changes
  PROVE  StepIsGood(i)
<1>1. edited'[i] = edited[i] \cup {<<"global", k>> : k \in DOMAIN changes}
  BY DEF Save, Types
<1>2. <<"global", S>> \in known[i] \cup edited'[i]
  BY <1>1
<1>3. "global" \in Files /\ "global" # "local" /\ label \in {"act", "location", "wizardNew", "done"}
  BY Basics
<1>. QED BY <1>2, <1>3, SaveGood

\* The steps of the wizard.
LEMMA SetupGood ==
  ASSUME Types, DiskIsLast, NEW i \in Ids, Good(i),
         Setup(i) \/ SetupAnswer(i) \/ SetupLocation(i) \/ SetupRegister(i) \/ SetupProfile(i)
  PROVE  StepIsGood(i)
<1>0. /\ "global" \in Files /\ "local" \in Files /\ S \in Entries /\ Local \in Entries /\ i \in Values
      /\ P(cmd[i].profile) \in Entries
  BY Basics, CommandTypes
<1>1. CASE Setup(i)
  <2>1. At(i, "act") /\ cmd[i].op = "setup" /\ open[i] = None /\ pc[i] = "act"
        /\ pc[i] \notin {"new"} \cup Final
    BY <1>1, ActFacts DEF Setup, Is, At
  <2>2. Registered(i) => <<"global", S>> \in known[i]
    BY DEF Registered, Exists
  <2>3. CASE Go(i, IF Registered(i) THEN "location" ELSE "account")
    <3>1. CASE Registered(i)
      <4>1. "location" \in Labels \ {"new", "sync"}
        BY ActFacts
      <4>2. Go(i, "location")
        BY <2>3, <3>1
      <4>. QED BY <2>1, <2>2, <3>1, <4>1, <4>2, GoGood
    <3>2. CASE ~Registered(i)
      <4>1. "account" \in Labels \ {"new", "sync"} /\ "account" \notin Wizard
        BY ActFacts
      <4>2. Go(i, "account")
        BY <2>3, <3>2
      <4>. QED BY <2>1, <4>1, <4>2, GoGood
    <3>. QED BY <3>1, <3>2
  <2>4. CASE Registered(i) /\ Save(i, "global", Edit(S, i), "location")
    <3>1. \A x \in DOMAIN Edit(S, i) : x \in Entries /\ Edit(S, i)[x] \in Values
      BY <1>0, EditIsOne
    <3>. QED BY <2>1, <2>2, <2>4, <3>1, WizardSave
  <2>. QED BY <1>1, <2>3, <2>4 DEF Setup
<1>2. CASE SetupAnswer(i)
  <2>1. At(i, "account") /\ cmd[i].op = "setup" /\ open[i] = None /\ pc[i] = "account"
        /\ pc[i] \notin {"new"} \cup Final
    BY <1>2, ActFacts DEF SetupAnswer, At
  <2>2. CASE Save(i, "global", Account(i), "location")
    BY <2>1, <2>2, AccountTypes, WizardSave
  <2>3. CASE Fail(i)
    <3>1. Go(i, "failed")
      BY <2>3 DEF Fail
    <3>. QED BY <2>1, <3>1, ActFacts, EndGood
  <2>. QED BY <1>2, <2>2, <2>3 DEF SetupAnswer
<1>3. CASE SetupLocation(i)
  <2>1. /\ At(i, "location") /\ open[i] = None /\ pc[i] = "location" /\ cmd[i].op = "setup"
        /\ <<"global", S>> \in known[i] \cup edited[i]
    BY <1>3 DEF SetupLocation, At, Good, Place, HasAccount, Wizard
  <2>2. pc[i] \notin {"new"} \cup Final
    BY <2>1, ActFacts DEF Wizard
  <2>3. CASE Go(i, "wizard")
    <3>1. "wizard" \in Labels \ {"new", "sync"}
      BY ActFacts
    <3>. QED BY <2>1, <2>2, <2>3, <3>1, GoGood
  <2>4. CASE ~hasLocal[i] /\ Create(i, "wizardLocal")
    <3>1. mem[i]["local"] = Empty
      BY <2>1, <2>4 DEF Good, NoLocalCopy
    <3>2. ASSUME NEW k \in Keys PROVE InStep(i, "local", k, Empty[k])
      <4>1. InStep(i, "local", k, mem[i]["local"][k])
        BY <1>0, <2>1, <2>2 DEF Good, CopyInStep, Live
      <4>. QED BY <3>1, <4>1
    <3>. QED BY <2>1, <2>2, <2>4, <3>1, <3>2, CreateGood
  <2>. QED BY <1>3, <2>3, <2>4 DEF SetupLocation
<1>4. CASE SetupRegister(i)
  <2>1. /\ At(i, "wizardLocal") /\ open[i] = None /\ pc[i] = "wizardLocal" /\ cmd[i].op = "setup"
        /\ <<"global", S>> \in known[i] \cup edited[i]
        /\ Save(i, "global", Edit(Local, i), "wizardNew")
    BY <1>4 DEF SetupRegister, At, Good, Place, HasAccount, Wizard
  <2>2. pc[i] \notin {"new"} \cup Final
    BY <2>1, ActFacts DEF Wizard
  <2>3. \A x \in DOMAIN Edit(Local, i) : x \in Entries /\ Edit(Local, i)[x] \in Values
    BY <1>0, EditIsOne
  <2>. QED BY <2>1, <2>2, <2>3, WizardSave
<1>5. CASE SetupProfile(i)
  <2>1. PICK from \in {"wizard", "wizardNew"} : At(i, from)
    BY <1>5 DEF SetupProfile
  <2>2. /\ from \in Labels \ ({"new"} \cup Final) /\ cmd[i].op = "setup"
        /\ <<"global", S>> \in known[i] \cup edited[i]
    BY <2>1, ActFacts DEF At, Good, Place, HasAccount, Wizard
  <2>3. CASE Go(i, "done") \/ Go(i, "refused")
    BY <2>1, <2>2, <2>3, ActFacts, EndGood
  <2>4. CASE Save(i, Target(i), Edit(P(cmd[i].profile), i), "done")
    <3>1. Target(i) \in Files
      BY <1>0 DEF Target
    <3>2. \A x \in DOMAIN Edit(P(cmd[i].profile), i) :
            x \in Entries /\ Edit(P(cmd[i].profile), i)[x] \in Values
      BY <1>0, EditIsOne
    <3>. QED BY <2>1, <2>2, <2>4, <3>1, <3>2, SaveLast
  <2>5. CASE ~Accepted(i, Target(i)) /\ Go(i, "rejected")
    <3>1. <<"global", S>> \in edited[i] \/ NamesRelay(i)
      BY <2>2, <2>5 DEF Accepted, NamesRelay, Registered, Exists
    <3>. QED BY <2>1, <2>2, <2>5, <3>1, ActFacts, EndGood
  <2>. QED BY <1>5, <2>3, <2>4, <2>5 DEF SetupProfile
<1>. QED BY <1>1, <1>2, <1>3, <1>4, <1>5

-----------------------------------------------------------------------------
(* Theorems                                                                *)

\* Every step of a command is a good one.
LEMMA CommandGood ==
  ASSUME Types, DiskIsLast, NEW i \in Ids, Good(i), Step(i)
  PROVE  StepIsGood(i)
<1>1. CASE Write(i) BY <1>1, WriteGood
<1>2. CASE Kill(i) BY <1>2, KillGood
<1>3. CASE Start(i) BY <1>3, StartGood
<1>4. CASE Sync(i) BY <1>4, SyncGood
<1>5. CASE Set(i) \/ Http(i) \/ HttpAnswer(i) \/ Use(i) \/ UseRelay(i) \/ Auth(i)
             \/ Register(i) \/ RegisterAnswer(i)
  BY <1>5, EditorsGood
<1>6. CASE Delete(i) \/ Confirm(i) BY <1>6, DeleteGood
<1>7. CASE InitLocal(i) \/ InitCreate(i) \/ InitRegister(i) BY <1>7, InitCommandGood
<1>8. CASE Setup(i) \/ SetupAnswer(i) \/ SetupLocation(i) \/ SetupRegister(i) \/ SetupProfile(i)
  BY <1>8, SetupGood
<1>. QED BY <1>1, <1>2, <1>3, <1>4, <1>5, <1>6, <1>7, <1>8 DEF Step

\* The files a command may find are in step with nobody's copies.
LEMMA InitIInv == Init => IInv
<1>. SUFFICES ASSUME Init PROVE IInv
  OBVIOUS
<1>. DEFINE G == {Empty, [Empty EXCEPT ![S] = Old, ![Active] = Server, ![P(DefaultName)] = Old]}
            L == {Absent, [Empty EXCEPT ![P(DefaultName)] = Old]}
<1>1. PICK g \in G, l \in L :
        /\ disk = [f \in Files |-> IF f = "global" THEN g ELSE l]
        /\ last = [f \in Files |-> IF f = "global" THEN g ELSE Parse(l)]
  BY DEF Init
<1>2. Old \in Values /\ Server \in Values
  BY DEF Values
<1>3. g \in Docs /\ l \in Contents \ {Torn}
  <2>1. [Empty EXCEPT ![S] = Old, ![Active] = Server, ![P(DefaultName)] = Old] \in Docs
    BY <1>2, Basics DEF Docs
  <2>2. [Empty EXCEPT ![P(DefaultName)] = Old] \in Docs
    BY <1>2, Basics DEF Docs
  <2>3. Absent # Torn /\ \A d \in Docs : d # Torn
    BY ConfigAssumption, DocIsReadable
  <2>. QED BY <2>1, <2>2, <2>3, Basics DEF Contents
<1>. HIDE DEF G, L
<1>4. disk \in [Files -> Contents] /\ last \in [Files -> Docs]
  BY <1>1, <1>3, Basics DEF Contents
<1>5. DiskIsLast
  <2>1. last["global"] = Parse(disk["global"]) /\ last["local"] = Parse(disk["local"])
    BY <1>1, <1>3, Basics, DocIsReadable
  <2>. QED BY <2>1 DEF DiskIsLast, Files
<1>6. /\ cmd \in [Ids -> Commands] /\ pc = [i \in Ids |-> "new"]
      /\ mem = [i \in Ids |-> [f \in Files |-> Empty]]
      /\ known = [i \in Ids |-> {}] /\ hasLocal = [i \in Ids |-> FALSE]
      /\ open = [i \in Ids |-> None] /\ touched = [i \in Ids |-> {}]
      /\ tornRead = [i \in Ids |-> {}] /\ edited = [i \in Ids |-> {}]
  BY DEF Init
<1>7. /\ pc \in [Ids -> Labels] /\ mem \in [Ids -> [Files -> Docs]]
      /\ known \in [Ids -> SUBSET (Files \X Keys)] /\ hasLocal \in [Ids -> BOOLEAN]
      /\ open \in [Ids -> Files \cup {None}]
      /\ touched \in [Ids -> SUBSET (Files \X (Keys \cup {File}))]
      /\ tornRead \in [Ids -> SUBSET Files]
      /\ edited \in [Ids -> SUBSET (Files \X Entries)]
  BY <1>6, Basics DEF Labels
<1>8. Types
  BY <1>4, <1>6, <1>7 DEF Types
<1>9. ASSUME NEW i \in Ids PROVE Good(i)
  <2>1. pc[i] = "new" /\ open[i] = None /\ edited[i] = {}
    BY <1>6
  <2>2. CopyInStep(i) /\ CreateInStep(i) /\ NoLocalCopy(i) /\ HasAccount(i) /\ Registry(i)
    BY <2>1 DEF CopyInStep, Live, CreateInStep, NoLocalCopy, HasAccount, Registry, Wizard
  <2>3. Place(i)
    BY <2>1, Basics DEF Place, Wizard
  <2>. QED BY <2>2, <2>3 DEF Good
<1>. QED BY <1>5, <1>8, <1>9 DEF IInv

\* A step leaves every command good, its own and the others.
LEMMA StepIInv == IInv /\ [Next]_vars => IInv'
<1>. SUFFICES ASSUME IInv, [Next]_vars PROVE IInv'
  OBVIOUS
<1>1. CASE UNCHANGED vars
  <2>1. /\ disk' = disk /\ cmd' = cmd /\ pc' = pc /\ mem' = mem /\ known' = known
        /\ hasLocal' = hasLocal /\ open' = open /\ last' = last /\ touched' = touched
        /\ tornRead' = tornRead /\ edited' = edited
    BY <1>1 DEF vars
  <2>2. Types' /\ DiskIsLast'
    BY <2>1 DEF IInv, Types, DiskIsLast, Parse
  <2>3. ASSUME NEW j \in Ids PROVE Good(j)'
    <3>1. Same(j) /\ Seen(j)
      BY <2>1 DEF Same, Seen
    <3>2. Types /\ Good(j)
      BY DEF IInv
    <3>. QED BY <2>1, <3>1, <3>2, Bystander
  <2>. QED BY <2>2, <2>3 DEF IInv
<1>2. ASSUME NEW i \in Ids, Step(i) PROVE IInv'
  <2>1. StepIsGood(i)
    BY <1>2, CommandGood DEF IInv
  <2>2. ASSUME NEW j \in Ids PROVE Good(j)'
    <3>1. CASE j = i BY <2>1, <3>1 DEF StepIsGood
    <3>2. CASE j # i
      <4>1. Types /\ Good(j) /\ Same(j) /\ Seen(j) /\ cmd' = cmd
        BY <2>1, <3>2 DEF IInv, StepIsGood
      <4>. QED BY <4>1, Bystander
    <3>. QED BY <3>1, <3>2
  <2>. QED BY <2>1, <2>2 DEF StepIsGood, IInv
<1>. QED BY <1>1, <1>2 DEF Next

\* The inductive invariant: whatever the commands and however many run at a
\* time, a copy differs from its file only where that is known or recent.
THEOREM ConfigInvariant == Spec => []IInv
<1>1. Init => IInv
  BY InitIInv
<1>2. IInv /\ [Next]_vars => IInv'
  BY StepIInv
<1>. QED BY <1>1, <1>2, PTL DEF Spec

\* A command that starts undisturbed finds and leaves the registry in step
\* with the local file, also while it or another one is being written.
THEOREM ConfigRegistrySynced == Spec => []RegistrySynced
<1>1. IInv => RegistrySynced
  BY DEF IInv, Good, Registry, RegistrySynced, At
<1>. QED BY <1>1, ConfigInvariant, PTL

\* The wizard turns away only an account that it has registered itself, or a
\* profile that names a relay without one.
THEOREM ConfigRejectsOnlyNew == Spec => []RejectsOnlyNewAccount
<1>1. IInv => RejectsOnlyNewAccount
  BY DEF IInv, Good, HasAccount, RejectsOnlyNewAccount
<1>. QED BY <1>1, ConfigInvariant, PTL

\* A step of a command takes from a file only what the command was told to
\* change, what another one changed since it read the file, or everything.
THEOREM ConfigSaveUndoesOnlyRecent == Spec => SaveUndoesOnlyRecent
<1>. DEFINE Recent == \A i \in Ids : pc'[i] # pc[i] \/ open'[i] # open[i] =>
       \A f \in Files, k \in Keys : last'[f][k] # last[f][k] =>
         \/ <<f, k>> \in edited'[i] \cup touched[i]
         \/ f \in tornRead[i]
         \/ disk'[f] = Torn
         \/ disk'[f] = Absent /\ cmd[i].op \in {"remove", "init"}
<1>1. IInv /\ [Next]_vars => [Recent]_vars
  <2>. SUFFICES ASSUME IInv, NEW i \in Ids, Step(i) PROVE Recent
    BY DEF Next
  <2>1. StepIsGood(i)
    BY CommandGood DEF IInv
  <2>2. \A j \in Ids \ {i} : pc'[j] = pc[j] /\ open'[j] = open[j]
    BY <2>1 DEF StepIsGood, Same
  <2>3. Undoes(i)
    BY <2>1 DEF StepIsGood
  <2>. QED BY <2>2, <2>3 DEF Undoes
<1>. QED BY <1>1, ConfigInvariant, PTL DEF Spec, SaveUndoesOnlyRecent
=============================================================================
