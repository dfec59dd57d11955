----------------------------- MODULE ConfigFile -----------------------------
(* config.toml and everybody who reads and writes it: the CLI and the TUI     *)
(* through frontend.UpdateConfig (lock, load, edit, save, tell the daemon),   *)
(* the operator's text editor, which knows no lock, and the daemon, which     *)
(* loads it again when a nudge of the control socket says so.                 *)
(*                                                                           *)
(* The 100 keys are represented by one of each kind: a number with a range    *)
(* (threshold), a key that was renamed (seed), a list that took in an older   *)
(* list (rules), a duration that a file may state wrongly (accept), a choice  *)
(* whose default depends on whether there is a file (provider), a command     *)
(* that presets fill (command), the self-prompting switch (fsp) and a list    *)
(* where the first match counts (delays).                                     *)
EXTENDS Integers, Sequences, FiniteSets

CONSTANTS
  HandFiles,     \* the files a text editor may leave behind
  Editors,       \* processes that edit through UpdateConfig
  Edits,         \* the edits they make: records, see Applied
  MaxConfigEdits,      \* edits begun
  MaxHandEdits,  \* saves of the text editor
  MaxWakes,      \* other nudges
  QueueSize      \* room for nudges on their way to the loop

NaN == 1000      \* strconv.ParseFloat accepts it, and every comparison is false

VARIABLES
  file,        \* config.toml
  configLock,  \* the writer inside config.toml.lock, or none
  edit,        \* per writer: its edit, the configuration it loaded, and how far it is
  seen,        \* what the TUI showed last: the configuration edits are chosen from
  toggles,     \* the self-prompting switches recorded in the history
  nudges,      \* the control socket's queue
  loaded,      \* what the daemon runs with
  fileVersion,     \* history: number of the file's contents
  loadedAt,    \* history: the version the daemon read
  promised,    \* history: the newest version somebody was told the daemon reloads
  dropped,     \* history: a nudge found the queue full
  refused,     \* history: a reload met a file that does not load
  configEdits, handEdits, wakes

configVars == <<file, configLock, edit, seen, toggles, nudges, loaded, fileVersion, loadedAt, promised,
                dropped, refused, configEdits, handEdits, wakes>>

NoConfigEdit == [pc |-> "none"]

\* The keys of a file have the types of the TOML; a delay names a type of agent or "*".
DelayRules == Seq([type : STRING, ms : Int])
HandFileOK(f) ==
  f.kind = "text" =>
    /\ f.threshold \in SUBSET Int /\ f.oldThreshold \in SUBSET Int
    /\ f.seed \in SUBSET BOOLEAN /\ f.oldSeed \in SUBSET BOOLEAN /\ f.fsp \in BOOLEAN
    /\ f.rules \in Seq(STRING) /\ f.oldRules \in Seq(STRING) /\ f.delays \in DelayRules

ValueOps == {"threshold", "accept", "provider", "fsp"}
EditOK(e) ==
  /\ e.op \in ValueOps \union {"preset", "clear", "add", "remove", "delay", "undelay"}
  /\ e.op = "threshold" => e.value \in Int
  /\ e.op = "fsp" => e.value \in BOOLEAN
  /\ e.op = "add" => e.value \in STRING
  /\ e.op = "delay" => e.type \in STRING /\ e.value \in Int

ASSUME ConfigAssumed ==
  /\ \A f \in HandFiles : HandFileOK(f)
  /\ \A e \in Edits : EditOK(e)
  /\ "none" \notin Editors

-----------------------------------------------------------------------------
(* config.Load, config.Save *)

\* Default
Default ==
  [threshold |-> 70, seed |-> FALSE, rules |-> <<>>, accept |-> "", provider |-> "database",
   command |-> "", fsp |-> FALSE, delays |-> <<>>]

\* A key a file may state is the set of what it states: one value or none.
Stated(key, default) == IF key = {} THEN default ELSE CHOOSE v \in key : TRUE

\* A key under its old and its new name: the new one wins.
Renamed(new, old, default) == Stated(new, Stated(old, default))

\* A list without the entries at some positions.
Lacking(list, out) ==
  LET kept[i \in 0..Len(list)] ==
        IF i = 0 THEN <<>> ELSE IF i \in out THEN kept[i - 1] ELSE Append(kept[i - 1], list[i])
  IN  kept[Len(list)]

\* Old lists are appended to the new one, without what it has already.
MergedRules(new, old) ==
  new \o Lacking(old, {i \in DOMAIN old : \/ \E j \in DOMAIN new : new[j] = old[i]
                                         \/ \E j \in 1..(i - 1) : old[j] = old[i]})

\* A file that names no provider is of the time when lists were plain files;
\* sqlite is the database's old name.
ProviderOf(stated) ==
  LET p == Stated(stated, "localfs") IN IF p \in {"", "sqlite"} THEN "database" ELSE p

\* fillZeroes: out of range is the default. NaN is not below, and not above.
FillZeroes(v) == IF v # NaN /\ v <= 0 THEN Default.threshold ELSE v

\* AutoAccept.validate
ValidAccept(d) == d \in {"", "0", "15m"}

\* The keys of a file; every one may be missing.
Loads(f) == f.kind = "none" \/ (f.kind = "text" /\ ValidAccept(f.accept))
Load(f) ==
  IF f.kind = "none" THEN Default
  ELSE [threshold |-> FillZeroes(Renamed(f.threshold, f.oldThreshold, 0)),
        seed |-> Renamed(f.seed, f.oldSeed, FALSE),
        rules |-> MergedRules(f.rules, f.oldRules),
        accept |-> f.accept, provider |-> ProviderOf(f.provider),
        command |-> f.command, fsp |-> f.fsp, delays |-> f.delays]

\* Mutant: the file keeps the keys it had beside the new ones.
SaveKeeping(cfg, f) ==
  [kind |-> "text", threshold |-> {cfg.threshold}, oldThreshold |-> {}, seed |-> {cfg.seed},
   oldSeed |-> {}, rules |-> cfg.rules, oldRules |-> IF f.kind = "text" THEN f.oldRules ELSE <<>>,
   accept |-> cfg.accept, provider |-> IF cfg.provider = "" THEN {} ELSE {cfg.provider},
   command |-> cfg.command, fsp |-> cfg.fsp, delays |-> cfg.delays]

\* Save, by rename: new names only; an empty provider is left out.
Save(cfg, f) ==
  [kind |-> "text", threshold |-> {cfg.threshold}, oldThreshold |-> {}, seed |-> {cfg.seed},
   oldSeed |-> {}, rules |-> cfg.rules, oldRules |-> <<>>,
   accept |-> cfg.accept, provider |-> IF cfg.provider = "" THEN {} ELSE {cfg.provider},
   command |-> cfg.command, fsp |-> cfg.fsp, delays |-> cfg.delays]

-----------------------------------------------------------------------------
(* The edits *)

\* SetField, numbers: ParseFloat, then the range.
InRange(v) == ~(v # NaN /\ (v <= 0 \/ v >= 100))

\* Mutant: any duration will do.
AcceptsDurationAny(d) == TRUE

\* setAutoAcceptThreshold: what validate will not refuse.
AcceptsDuration(d) == d \in {"", "0", "15m"}

\* Mutant: whatever is at the position now.
StillListedAny(list, i, expected) == i \in DOMAIN list

\* checkTaskSourceUnchanged and its like: the entry the operator was shown.
StillListed(list, i, expected) == i \in DOMAIN list /\ list[i] = expected

WithoutAt(list, i) == SubSeq(list, 1, i - 1) \o SubSeq(list, i + 1, Len(list))

\* CaptureDelay: the first rule that matches.
Matches(rule, type) == rule.type \in {"*", type}
ReadDelay(delays, type) ==
  LET hits == {i \in DOMAIN delays : Matches(delays[i], type)}
  IN  IF hits = {} THEN 0 ELSE delays[CHOOSE i \in hits : \A j \in hits : i <= j].ms

\* Mutant: a new rule goes to the end.
WithDelayLast(delays, type, ms) ==
  LET at == {i \in DOMAIN delays : delays[i].type = type}
  IN  IF at # {} THEN [delays EXCEPT ![CHOOSE i \in at : \A j \in at : i <= j].ms = ms]
      ELSE Append(delays, [type |-> type, ms |-> ms])

\* SetCaptureDelay: the type's own rule, or a new one ahead of the catch-all.
WithDelay(delays, type, ms) ==
  LET at == {i \in DOMAIN delays : delays[i].type = type}
      any == {i \in DOMAIN delays : delays[i].type = "*"}
      new == [type |-> type, ms |-> ms]
      first(s) == CHOOSE i \in s : \A j \in s : i <= j
  IN  CASE at # {} -> [delays EXCEPT ![first(at)].ms = ms]
        [] at = {} /\ any # {} -> SubSeq(delays, 1, first(any) - 1) \o <<new>> \o SubSeq(delays, first(any), Len(delays))
        [] OTHER -> Append(delays, new)

WithoutDelays(delays, type) == Lacking(delays, {i \in DOMAIN delays : delays[i].type = type})

\* Each edit names the one setting it is about.
FieldOf(e) ==
  CASE e.op = "threshold" -> "threshold" [] e.op = "accept" -> "accept" [] e.op = "provider" -> "provider"
    [] e.op = "fsp" -> "fsp" [] e.op \in {"preset", "clear"} -> "command" [] e.op \in {"add", "remove"} -> "rules"
    [] e.op \in {"delay", "undelay"} -> "delays"

\* The prompt of a screen names what the screen shows; a line or a command that has
\* changed since is left alone.
RemovesTheShown(e, cfg, shown) ==
  e.value \in DOMAIN shown.rules /\ StillListed(cfg.rules, e.value, shown.rules[e.value])
ClearsTheShown(cfg, shown) == cfg.command # "" /\ cfg.command = shown.command

\* What the edit asks of the configuration that was just loaded. Enabling
\* self-prompting wants a command (fspEnablePreconditions; the pause and the
\* count of rules are of the store); a preset fills an unset command only.
Permitted(e, cfg, shown) ==
  CASE e.op = "threshold" -> InRange(e.value)
    [] e.op = "accept" -> AcceptsDuration(e.value)
    [] e.op = "provider" -> TRUE
    [] e.op = "fsp" -> e.value /\ ~cfg.fsp => cfg.command # ""
    [] e.op = "preset" -> cfg.command = ""
    [] e.op = "clear" -> ClearsTheShown(cfg, shown)
    [] e.op = "add" -> TRUE
    [] e.op = "remove" -> RemovesTheShown(e, cfg, shown)
    [] e.op = "delay" -> TRUE
    [] e.op = "undelay" -> \E i \in DOMAIN cfg.delays : cfg.delays[i].type = e.type

\* Rules are added at the end and removed by position.
RulesAfter(e, rules) == IF e.op = "add" THEN Append(rules, e.value) ELSE WithoutAt(rules, e.value)

Applied(e, cfg) ==
  CASE e.op \in {"threshold", "accept", "provider", "fsp"} -> [cfg EXCEPT ![e.op] = e.value]
    [] e.op = "preset" -> [cfg EXCEPT !.command = "preset"]
    [] e.op = "clear" -> [cfg EXCEPT !.command = ""]
    [] e.op \in {"add", "remove"} -> [cfg EXCEPT !.rules = RulesAfter(e, @)]
    [] e.op = "delay" -> [cfg EXCEPT !.delays = WithDelay(@, e.type, e.value)]
    [] e.op = "undelay" -> [cfg EXCEPT !.delays = WithoutDelays(@, e.type)]

InitConfig ==
  /\ file \in HandFiles /\ Loads(file)
  /\ configLock = "none" /\ edit = [w \in Editors |-> NoConfigEdit] /\ seen = Load(file)
  /\ toggles = Load(file).fsp /\ nudges = <<>> /\ loaded = Load(file)
  /\ fileVersion = 0 /\ loadedAt = 0 /\ promised = 0 /\ dropped = FALSE /\ refused = FALSE
  /\ configEdits = 0 /\ handEdits = 0 /\ wakes = 0

-----------------------------------------------------------------------------
(* A writer: UpdateConfig *)

\* Under the lock it loads; a file that does not load is never written over.
BeginEdit(w) ==
  /\ configLock = "none" /\ edit[w] = NoConfigEdit /\ configEdits < MaxConfigEdits /\ configEdits' = configEdits + 1
  /\ \E e \in Edits :
       LET goes == Loads(file) /\ Permitted(e, Load(file), seen)
       IN  \/ /\ goes /\ configLock' = w
              /\ edit' = [edit EXCEPT ![w] = [pc |-> "save", of |-> e, was |-> Load(file), shown |-> seen]]
           \/ ~goes /\ UNCHANGED <<configLock, edit>>
  /\ UNCHANGED <<file, seen, toggles, nudges, loaded, fileVersion, loadedAt, promised, dropped, handEdits, wakes, refused>>

\* Mutant: the lock is released once the file is there.
HeldForFile(w) == "none"

\* The lock outlives the history entry of the switch.
HeldForHistory(w) == w

SaveEdit(w) ==
  /\ edit[w].pc = "save"
  /\ file' = Save(Applied(edit[w].of, edit[w].was), file) /\ fileVersion' = fileVersion + 1
  /\ edit' = [edit EXCEPT ![w].pc = "record"] /\ configLock' = HeldForHistory(w)
  /\ UNCHANGED <<seen, toggles, nudges, loaded, loadedAt, promised, dropped, configEdits, handEdits, wakes, refused>>

SwitchMoved(w) == edit[w].of.op = "fsp" /\ edit[w].of.value # edit[w].was.fsp

\* recordFSPToggle, when the switch moved.
RecordEdit(w) ==
  /\ edit[w].pc = "record"
  /\ toggles' = IF SwitchMoved(w) THEN edit[w].of.value ELSE toggles
  /\ edit' = [edit EXCEPT ![w].pc = "tell"]
  /\ UNCHANGED <<file, configLock, seen, nudges, loaded, fileVersion, loadedAt, promised, dropped, configEdits, handEdits, wakes, refused>>

\* control.Nudge: an error is a socket nobody listens on; a written byte is a
\* promise, even when the queue turns out to be full.
Enqueue(kind) ==
  /\ nudges' = IF Len(nudges) < QueueSize THEN Append(nudges, kind) ELSE nudges
  /\ dropped' = (dropped \/ Len(nudges) = QueueSize)

TellDaemon(w) ==
  /\ edit[w].pc = "tell" /\ edit' = [edit EXCEPT ![w] = NoConfigEdit]
  /\ configLock' = IF configLock = w THEN "none" ELSE configLock
  /\ \/ Enqueue("reload") /\ promised' = fileVersion
     \/ UNCHANGED <<nudges, dropped, promised>>
  /\ UNCHANGED <<file, seen, toggles, loaded, fileVersion, loadedAt, configEdits, handEdits, wakes, refused>>

-----------------------------------------------------------------------------
(* The others *)

HandEdit ==
  /\ handEdits < MaxHandEdits /\ handEdits' = handEdits + 1
  /\ \E f \in HandFiles : f # file /\ file' = f
  /\ fileVersion' = fileVersion + 1
  /\ UNCHANGED <<configLock, edit, seen, toggles, nudges, loaded, loadedAt, promised, dropped, configEdits, wakes, refused>>

\* The TUI's refresh; it keeps what it has when the file does not load.
TuiReadsConfig ==
  /\ Loads(file) /\ seen' = Load(file)
  /\ UNCHANGED <<file, configLock, edit, toggles, nudges, loaded, fileVersion, loadedAt, promised, dropped, configEdits, handEdits, wakes, refused>>

\* Consults, actions and fleet pushes use the same queue.
Wake ==
  /\ wakes < MaxWakes /\ wakes' = wakes + 1 /\ Enqueue("wake")
  /\ UNCHANGED <<file, configLock, edit, seen, toggles, loaded, fileVersion, loadedAt, promised, configEdits, handEdits, refused>>

\* Mutant: whatever waits is taken for a repetition.
StillQueuedNone(kind, queue) == <<>>

\* A nudge stands for an equal one right behind it.
StillQueued(kind, queue) == IF queue # <<>> /\ Head(queue) = kind THEN Tail(queue) ELSE queue

\* dispatch hands equal neighbours over once; the loop takes one and reloads,
\* keeping what it has when the file does not load.
TakeNudge ==
  /\ nudges # <<>>
  /\ nudges' = StillQueued(Head(nudges), Tail(nudges))
  /\ IF Head(nudges) = "reload"
     THEN /\ loaded' = IF Loads(file) THEN Load(file) ELSE loaded
          /\ loadedAt' = IF Loads(file) THEN fileVersion ELSE loadedAt
          /\ refused' = (refused \/ ~Loads(file))
     ELSE UNCHANGED <<loaded, loadedAt, refused>>
  /\ UNCHANGED <<file, configLock, edit, seen, toggles, fileVersion, promised, dropped, configEdits, handEdits, wakes>>

NextConfig ==
  \/ \E w \in Editors : BeginEdit(w) \/ SaveEdit(w) \/ RecordEdit(w) \/ TellDaemon(w)
  \/ HandEdit \/ TuiReadsConfig \/ Wake \/ TakeNudge

SpecConfig == InitConfig /\ [][NextConfig]_configVars

\* Writers finish what they began, and the loop takes its nudges.
FairConfig ==
  /\ \A w \in Editors : WF_configVars(SaveEdit(w)) /\ WF_configVars(RecordEdit(w)) /\ WF_configVars(TellDaemon(w))
  /\ WF_configVars(TakeNudge)

FairSpecConfig == SpecConfig /\ FairConfig

-----------------------------------------------------------------------------
(* Properties *)

\* An edit changes what it is about and nothing else: saving rewrites the file
\* under new names, with defaults and merged lists written out, and every other
\* setting must still mean what it meant (Load after Save).
OtherSettingsStand ==
  [][\A w \in Editors : SaveEdit(w) =>
       \A k \in DOMAIN Default : k # FieldOf(edit[w].of) => Load(file')[k] = edit[w].was[k]]_configVars

\* The program never leaves behind a file it then refuses to read and to edit
\* (setAutoAcceptThreshold against AutoAccept.validate).
OwnFileLoads == [][\A w \in Editors : SaveEdit(w) => Loads(file')]_configVars

\* A removal takes the entry the operator saw, not the one that has its place
\* now.
OnlyTheSeenIsRemoved ==
  [][\A w \in Editors : SaveEdit(w) /\ edit[w].of.op = "remove" =>
       edit[w].was.rules[edit[w].of.value] = edit[w].shown.rules[edit[w].of.value]]_configVars

\* The history's newest switch is the setting, however many processes toggle
\* it (updateConfigReloadedThen's hook runs inside the lock).
HistoryIsTheSwitch ==
  (handEdits = 0 /\ \A w \in Editors : edit[w].pc # "record") => toggles = Load(file).fsp

\* "what the operator sets is what the daemon reads" (SetCaptureDelay).
DelaySetIsRead ==
  [][\A w \in Editors : SaveEdit(w) /\ edit[w].of.op = "delay" =>
       ReadDelay(Load(file').delays, edit[w].of.type) = edit[w].of.value]_configVars

\* The same, for lists that no text editor has touched.
OwnDelayIsRead ==
  [][\A w \in Editors : SaveEdit(w) /\ edit[w].of.op = "delay"
         /\ (\A i, j \in DOMAIN edit[w].was.delays : edit[w].was.delays[i].type = "*" => j <= i) =>
       ReadDelay(Load(file').delays, edit[w].of.type) = edit[w].of.value]_configVars

\* A threshold is a probability: the gate compares with it (SetField's "must be
\* in (0,1)").
ThresholdGates == Loads(file) => LET t == Load(file).threshold IN t # NaN /\ 0 < t /\ t < 100

\* An edit whose writer was told that the daemon reloads is loaded, unless the
\* reload met a file that a text editor broke, or a nudge was dropped.
EditReachesDaemon ==
  \A v \in 1..(MaxConfigEdits + MaxHandEdits) :
    promised = v ~> (loadedAt >= v \/ refused \/ dropped)

\* "nudges are idempotent, drop is safe" (control.go).
DropIsSafe ==
  \A v \in 1..(MaxConfigEdits + MaxHandEdits) : promised = v ~> (loadedAt >= v \/ refused)

\* What an edit of the configuration promises: it changes what it is about, in a file that
\* loads, and the history says what the file says (updateConfig).
ConfigEditsAreExact ==
  /\ OtherSettingsStand /\ OwnFileLoads /\ OnlyTheSeenIsRemoved /\ OwnDelayIsRead
  /\ []HistoryIsTheSwitch
=============================================================================
