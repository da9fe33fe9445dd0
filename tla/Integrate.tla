------------------------------ MODULE Integrate ------------------------------
(***************************************************************************)
(* mnem integrate and mnem unintegrate: the entries that mnem keeps in the *)
(* configuration files of agent hosts, beside what the user has there.     *)
(*                                                                         *)
(* Sources: mnem-cli/src/integrate.rs, unintegrate.rs.                     *)
(*                                                                         *)
(* A file holds the user's items and mnem's entries, each with the version *)
(* of the target it was written for.  A file is replaced by a rename, so   *)
(* that it is written or not: each step below reads, changes and replaces  *)
(* one file, and the process may be killed between two steps.  The user    *)
(* edits the files between commands, also so that they no longer parse.    *)
(***************************************************************************)
EXTENDS Naturals, FiniteSets, Sequences

CONSTANTS Host,
          Markdown,       \* hosts with a rules file of their own for the prompt
          JsonPrompt,     \* hosts that keep the prompt in the config file
          JsonHooks,      \* hosts with a file of their own for the hooks
          ScriptHooks,    \* hosts wired by a script that the config file names
          Item,           \* what a user may have in a file
          Version,        \* what entries are written for: a repository, a binary
          MaxRuns, MaxNamed, MaxEdits, MaxKills      \* bounds

ASSUME IntegrateAssumption ==
    /\ Markdown \cup JsonPrompt \cup JsonHooks \cup ScriptHooks \subseteq Host
    /\ Markdown \cap JsonPrompt = {}
    /\ ScriptHooks \cap (Markdown \cup JsonPrompt \cup JsonHooks) = {}
    /\ {"absent", "edited"} \cap Version = {}

VARIABLES file,      \* the config, the rules (prompt) and the settings (hooks) of each host
          script,    \* the hook script of a host: absent, edited by the user, or a version
          record,    \* integrations.toml: the components recorded for a host
          run,       \* the command that runs, with its backups and the files it found
          runs, edits, kills

inVars == <<file, script, record, run, runs, edits, kills>>

Slot == {"config", "rules", "settings"}

Part == {"mcp", "hooks", "prompt"}

NoFile == [exists |-> FALSE, parses |-> TRUE, user |-> {}, mine |-> {}]

\* Kept in the config file: the server entry, the JSON prompt, the names of hook scripts.
SlotOf(h, part) ==
    CASE part = "prompt" /\ h \in Markdown -> "rules"
      [] part = "hooks" /\ h \in JsonHooks -> "settings"
      [] OTHER                             -> "config"

Supports(h, part) ==
    CASE part = "mcp"    -> h \notin ScriptHooks
      [] part = "hooks"  -> h \in JsonHooks \cup ScriptHooks
      [] part = "prompt" -> h \in Markdown \cup JsonPrompt

\* Nothing recorded is not the same as a record without components.
Unrecorded == {"none"}

Idle == [command |-> "none"]

-----------------------------------------------------------------------------
WithEntry(f, part, v) ==
    [f EXCEPT !.exists = TRUE,
              !.mine = {e \in @ : e.part # part} \cup {[part |-> part, version |-> v]}]

\* A rules file in which nothing is left is deleted.
WithoutEntry(f, part, slot) ==
    IF slot = "rules" /\ f.user = {} THEN NoFile
    ELSE [f EXCEPT !.mine = {e \in @ : e.part # part}]

Has(f, part) == \E e \in f.mine : e.part = part

-----------------------------------------------------------------------------
(***************************************************************************)
(* integrate: for each host the parts it supports one after another, each  *)
(* whether or not those before it succeeded; what succeeded is recorded.   *)
(* A host with a hook script gets the script first, then the config that   *)
(* names it.                                                               *)
(***************************************************************************)
\* Mutated form: the config names the script before it is there.
WireStepsConfigFirst(h) ==
    IF h \in ScriptHooks THEN <<"hooks", "script">>
    ELSE <<"mcp", "hooks", "prompt">>

WireSteps(h) ==
    IF h \in ScriptHooks THEN <<"script", "hooks">>
    ELSE <<"mcp", "hooks", "prompt">>

\* Mutated form: what the latest run recorded is undone.
UndoStepsRecorded(h) ==
    IF h \in ScriptHooks THEN <<"hooks", "script">>
    ELSE SelectSeq(<<"mcp", "prompt", "hooks">>, LAMBDA p : p \in record[h])

UndoSteps(h) ==
    IF h \in ScriptHooks THEN <<"hooks", "script">>
    ELSE <<"mcp", "prompt", "hooks">>

Start(command, hosts, v, skip) ==
    /\ run = Idle /\ runs < MaxRuns
    /\ hosts # {} /\ Cardinality(hosts) <= MaxNamed
    /\ runs' = runs + 1
    /\ \E h \in hosts :
          run' = [command |-> command, version |-> v, skip |-> skip, rest |-> hosts \ {h}, host |-> h,
                  todo |-> IF command = "integrate" THEN WireSteps(h) ELSE UndoSteps(h), ok |-> {},
                  before |-> file, saved |-> [g \in Host |-> [s \in Slot |-> NoFile]]]
    /\ UNCHANGED <<file, script, record, edits, kills>>

\* With --no-hooks or --no-system-prompt, these parts are skipped.
StartIntegrate(hosts, v, skip) == Start("integrate", hosts, v, skip)

Skipped(part) == part \in run.skip \/ (part = "script" /\ "hooks" \in run.skip)

\* Mutated form: a file in which mnem has an entry already is not backed up.
BackupFirst(h, s) == IF file[h][s].mine = {} THEN file[h][s] ELSE NoFile

Backup(h, s) == file[h][s]

Readable(h, s) == file[h][s].parses

WirePart ==
    /\ run.command = "integrate" /\ run.todo # <<>> /\ Head(run.todo) # "script"
    /\ LET h == run.host
           part == Head(run.todo)
           s == SlotOf(h, part)
           new == WithEntry(file[h][s], part, run.version)
           works == Supports(h, part) /\ ~ Skipped(part) /\ Readable(h, s)
           writes == works /\ new # file[h][s]
       IN  /\ run' = [run EXCEPT !.todo = Tail(@),
                                 !.ok = IF works THEN @ \cup {part} ELSE @,
                                 !.saved[h][s] = IF writes THEN Backup(h, s) ELSE @]
           /\ file' = IF writes THEN [file EXCEPT ![h][s] = new] ELSE file
    /\ UNCHANGED <<script, record, runs, edits, kills>>

\* The script is written without a backup, once the config is known to parse.
WireScript ==
    /\ run.command = "integrate" /\ run.todo # <<>> /\ Head(run.todo) = "script"
    /\ run' = [run EXCEPT !.todo = Tail(@)]
    /\ script' = IF ~ Skipped("script") /\ Readable(run.host, "config")
                 THEN [script EXCEPT ![run.host] = run.version] ELSE script
    /\ UNCHANGED <<file, record, runs, edits, kills>>

\* Mutated form: only a host in which every part succeeded is recorded.
RecordedIfAll(h) == IF run.ok = {p \in Part : Supports(h, p)} THEN run.ok ELSE record[h]

\* The record of a host is replaced by what this run wired or found.
Recorded(h) == IF run.ok # {} THEN run.ok ELSE record[h]

NextHost(command) ==
    IF run.rest = {} THEN run' = Idle
    ELSE \E h \in run.rest :
             run' = [run EXCEPT !.rest = @ \ {h}, !.host = h, !.ok = {},
                                !.todo = IF command = "integrate" THEN WireSteps(h) ELSE UndoSteps(h)]

RecordIntegration ==
    /\ run.command = "integrate" /\ run.todo = <<>>
    /\ record' = [record EXCEPT ![run.host] = Recorded(run.host)]
    /\ NextHost("integrate")
    /\ UNCHANGED <<file, script, runs, edits, kills>>

-----------------------------------------------------------------------------
(***************************************************************************)
(* unintegrate: for each host every part that mnem may have there, with or *)
(* without a record; a file that does not parse ends the command.          *)
(***************************************************************************)
StartUndo(hosts) == \E v \in Version : Start("undo", hosts, v, {})

UndoPart ==
    /\ run.command = "undo" /\ run.todo # <<>> /\ Head(run.todo) # "script"
    /\ LET h == run.host
           part == Head(run.todo)
           s == SlotOf(h, part)
       IN  IF Supports(h, part) => Readable(h, s)
           THEN /\ run' = [run EXCEPT !.todo = Tail(@)]
                /\ file' = IF Supports(h, part) /\ Has(file[h][s], part)
                           THEN [file EXCEPT ![h][s] = WithoutEntry(@, part, s)] ELSE file
           ELSE /\ run' = Idle
                /\ UNCHANGED file
    /\ UNCHANGED <<script, record, runs, edits, kills>>

\* A script that is not the one this binary writes is left in place.
UndoScript ==
    /\ run.command = "undo" /\ run.todo # <<>> /\ Head(run.todo) = "script"
    /\ run' = [run EXCEPT !.todo = Tail(@)]
    /\ script' = IF script[run.host] = run.version
                 THEN [script EXCEPT ![run.host] = "absent"] ELSE script
    /\ UNCHANGED <<file, record, runs, edits, kills>>

Deregister ==
    /\ run.command = "undo" /\ run.todo = <<>>
    /\ record' = [record EXCEPT ![run.host] = Unrecorded]
    /\ NextHost("undo")
    /\ UNCHANGED <<file, script, runs, edits, kills>>

\* The process is killed; what it has written stays.
Kill ==
    /\ run # Idle /\ kills < MaxKills
    /\ run' = Idle /\ kills' = kills + 1
    /\ UNCHANGED <<file, script, record, runs, edits>>

-----------------------------------------------------------------------------
\* The user, or the host, edits a file between commands.
EditFile(h, s) ==
    /\ run = Idle /\ edits < MaxEdits
    /\ edits' = edits + 1
    /\ \E f \in {[file[h][s] EXCEPT !.exists = TRUE, !.user = U] : U \in SUBSET Item}
                \cup {[file[h][s] EXCEPT !.exists = TRUE, !.parses = ~ @]} :
          /\ f # file[h][s] /\ (s = "rules" => f.parses)
          /\ file' = [file EXCEPT ![h][s] = f]
    /\ UNCHANGED <<script, record, run, runs, kills>>

EditScript(h) ==
    /\ run = Idle /\ edits < MaxEdits /\ script[h] \in Version
    /\ edits' = edits + 1
    /\ script' = [script EXCEPT ![h] = "edited"]
    /\ UNCHANGED <<file, record, run, runs, kills>>

InInit ==
    /\ \E f \in {NoFile, [NoFile EXCEPT !.exists = TRUE, !.user = Item]} :
          file = [h \in Host |-> [s \in Slot |-> f]]
    /\ script = [h \in Host |-> "absent"]
    /\ record = [h \in Host |-> Unrecorded]
    /\ run = Idle /\ runs = 0 /\ edits = 0 /\ kills = 0

InNext ==
    \/ \E hosts \in SUBSET Host :
          \/ \E v \in Version, skip \in SUBSET {"hooks", "prompt"} : StartIntegrate(hosts, v, skip)
          \/ StartUndo(hosts)
    \/ WirePart \/ WireScript \/ RecordIntegration
    \/ UndoPart \/ UndoScript \/ Deregister
    \/ Kill
    \/ \E h \in Host : EditScript(h) \/ \E s \in Slot : EditFile(h, s)

InSpec == InInit /\ [][InNext]_inVars
-----------------------------------------------------------------------------
(***************************************************************************)
(* Properties.                                                             *)
(***************************************************************************)
\* Types of the files, the record and the running command (integrate.rs, unintegrate.rs).
InTypeOK ==
    /\ file \in [Host -> [Slot -> [exists : BOOLEAN, parses : BOOLEAN, user : SUBSET Item,
                                  mine : SUBSET [part : Part, version : Version]]]]
    /\ script \in [Host -> {"absent", "edited"} \cup Version]
    /\ record \in [Host -> {Unrecorded} \cup SUBSET Part]
    /\ \A h \in Host, s \in Slot, p \in Part :
          Cardinality({e \in file[h][s].mine : e.part = p}) <= 1

(***************************************************************************)
(* A config that names the hook script of mnem never does so without the   *)
(* script, wherever the process is killed: the script is written first and *)
(* deleted last (do_wire_hermes_hooks, do_undo_hermes).                    *)
(***************************************************************************)
ScriptBehindHook ==
    \A h \in ScriptHooks : Has(file[h]["config"], "hooks") => script[h] # "absent"

(***************************************************************************)
(* unintegrate --all works from the records: unless a process was killed,  *)
(* every host in which mnem has an entry is recorded, although parts fail  *)
(* one by one, runs wire different parts, and an unintegrate may stop half *)
(* way (run, record_integration, deregister_integration).                  *)
(***************************************************************************)
WiredIsRecorded ==
    run = Idle /\ kills = 0 =>
        \A h \in Host : record[h] = Unrecorded => \A s \in Slot : file[h][s].mine = {}

(***************************************************************************)
(* A host loses its record only when no entry of mnem is left in any of    *)
(* its files, also those of parts that the latest integrate skipped        *)
(* (do_undo, run of unintegrate).                                          *)
(***************************************************************************)
UndoLeavesNothing ==
    [][\A h \in Host : record[h] # Unrecorded /\ record'[h] = Unrecorded =>
          \A s \in Slot : file'[h][s].mine = {}]_inVars

(***************************************************************************)
(* While integrate runs, a file that it has changed is in a backup as it   *)
(* was, and the user's items of every one are (do_wire, do_wire_hooks,     *)
(* do_wire_sp_markdown, do_wire_sp_json).  A config that also holds the    *)
(* prompt is backed up twice under one stamp: of its first backup only the *)
(* user's items are left.                                                  *)
(***************************************************************************)
BackupsAreOriginals ==
    run.command = "integrate" =>
        \A h \in Host, s \in Slot :
            file[h][s] # run.before[h][s] /\ run.before[h][s].exists =>
                /\ run.saved[h][s].user = run.before[h][s].user
                /\ h \notin JsonPrompt => run.saved[h][s] = run.before[h][s]
=============================================================================
