--------------------------- MODULE CommandProofs ---------------------------
(***************************************************************************)
(* Proofs about the commands that change what they find there:             *)
(*   - Integrate, for any hosts, items and versions, and any number of     *)
(*     commands, edits and kills;                                          *)
(*   - Revert, for any ids and blocks, any length of the log, and any      *)
(*     honest diff of the trees.                                           *)
(* The two components share no state: a part of the module for each.       *)
(***************************************************************************)
EXTENDS Integrate, Revert, GraphTreesProofs, SequenceTheorems

(***************************************************************************)
(* The invariant: types; entries are only where integrate puts them; a     *)
(* running command is at one of the steps of its host; the script is there *)
(* when the config is about to name it; what an undo has not come to yet   *)
(* is all that is left; and a host without a record has no entry, unless   *)
(* the command that made it one is about to record it.                     *)
(***************************************************************************)
Single(mine) == \A d, e \in mine : d.part = e.part => d = e

File == [exists : BOOLEAN, parses : BOOLEAN, user : SUBSET Item,
         mine : {m \in SUBSET [part : Part, version : Version] : Single(m)}]

Files == [Host -> [Slot -> File]]

TypesOK ==
    /\ file \in Files
    /\ script \in [Host -> {"absent", "edited"} \cup Version]
    /\ record \in [Host -> {Unrecorded} \cup SUBSET Part]
    /\ kills \in Nat

Placed ==
    \A h \in Host, s \in Slot : \A e \in file[h][s].mine :
        Supports(h, e.part) /\ SlotOf(h, e.part) = s

WireTodos(h) ==
    IF h \in ScriptHooks THEN {<<"script", "hooks">>, <<"hooks">>, <<>>}
    ELSE {<<"mcp", "hooks", "prompt">>, <<"hooks", "prompt">>, <<"prompt">>, <<>>}

UndoTodos(h) ==
    IF h \in ScriptHooks THEN {<<"hooks", "script">>, <<"script">>, <<>>}
    ELSE {<<"mcp", "prompt", "hooks">>, <<"prompt", "hooks">>, <<"hooks">>, <<>>}

Todos == UNION {WireTodos(h) \cup UndoTodos(h) : h \in Host}

Running == [command : {"integrate", "undo"}, version : Version, skip : SUBSET {"hooks", "prompt"},
            rest : SUBSET Host, host : Host, todo : Todos, ok : SUBSET Part,
            before : Files, saved : Files]

RunOK ==
    \/ run = Idle
    \/ /\ run \in Running
       /\ run.command = "integrate" => run.todo \in WireTodos(run.host)
       /\ run.command = "undo" => run.todo \in UndoTodos(run.host)

ScriptReady ==
    (/\ run.command = "integrate" /\ run.host \in ScriptHooks /\ run.todo = <<"hooks">>
     /\ "hooks" \notin run.skip /\ file[run.host]["config"].parses)
        => script[run.host] # "absent"

Left(todo) == {todo[i] : i \in DOMAIN todo}

UndoneOK ==
    run.command = "undo" =>
        \A s \in Slot : \A e \in file[run.host][s].mine : e.part \in Left(run.todo)

Recording(h) == run.command = "integrate" /\ run.host = h /\ run.ok # {}

RecordedOK ==
    kills = 0 =>
        \A h \in Host : record[h] = Unrecorded /\ ~ Recording(h)
                            => \A s \in Slot : file[h][s].mine = {}

IInv == /\ TypesOK /\ Placed /\ RunOK /\ ScriptBehindHook
        /\ ScriptReady /\ UndoneOK /\ RecordedOK

-----------------------------------------------------------------------------
\* What adding and taking away an entry does to a file.
LEMMA NoFileIsFile == NoFile \in File /\ NoFile.mine = {}
<1>1. {} \in {m \in SUBSET [part : Part, version : Version] : Single(m)}
  BY DEF Single
<1> QED
  BY <1>1 DEF NoFile, File

LEMMA EntryAdded ==
    ASSUME NEW f \in File, NEW p \in Part, NEW v \in Version
    PROVE  /\ WithEntry(f, p, v) \in File
           /\ WithEntry(f, p, v).parses = f.parses
           /\ \A e \in WithEntry(f, p, v).mine : e \in f.mine \/ e.part = p
<1> DEFINE rest == {e \in f.mine : e.part # p}
           new  == [part |-> p, version |-> v]
<1>1. rest \cup {new} \in SUBSET [part : Part, version : Version]
  BY DEF File
<1>2. WithEntry(f, p, v) = [f EXCEPT !.exists = TRUE, !.mine = rest \cup {new}]
  BY DEF WithEntry
<1>3. WithEntry(f, p, v).mine = rest \cup {new} /\ WithEntry(f, p, v).parses = f.parses
  BY <1>2 DEF File
<1>4. Single(rest \cup {new})
  BY DEF Single, File
<1>5. WithEntry(f, p, v) \in File
  BY <1>1, <1>2, <1>4 DEF File
<1> QED
  BY <1>3, <1>5

LEMMA EntryTaken ==
    ASSUME NEW f \in File, NEW p \in Part, NEW s \in Slot
    PROVE  /\ WithoutEntry(f, p, s) \in File
           /\ f.parses => WithoutEntry(f, p, s).parses
           /\ WithoutEntry(f, p, s).mine \subseteq {e \in f.mine : e.part # p}
<1> DEFINE rest == {e \in f.mine : e.part # p}
<1>1. rest \in {m \in SUBSET [part : Part, version : Version] : Single(m)}
  BY DEF File, Single
<1>2. CASE WithoutEntry(f, p, s) = NoFile
  BY <1>2, NoFileIsFile DEF NoFile
<1>3. CASE WithoutEntry(f, p, s) = [f EXCEPT !.mine = rest]
  BY <1>1, <1>3 DEF File
<1> QED
  BY <1>2, <1>3 DEF WithoutEntry

\* The steps that follow each other in the lists of a host.
LEMMA WireAdvances ==
    ASSUME NEW h \in Host, NEW t \in WireTodos(h), t # <<>>
    PROVE  /\ Tail(t) \in WireTodos(h) /\ Head(t) \in Part \cup {"script"}
           /\ Head(t) = "script" => t = <<"script", "hooks">>
           /\ Tail(t) = <<"hooks">> => t = <<"script", "hooks">>
           /\ h \in ScriptHooks /\ Head(t) # "script" => t = <<"hooks">> /\ Head(t) = "hooks"
<1>1. CASE h \in ScriptHooks
  <2>1. CASE t = <<"script", "hooks">>
    BY <1>1, <2>1 DEF WireTodos, Part
  <2>2. CASE t = <<"hooks">>
    BY <1>1, <2>2 DEF WireTodos, Part
  <2> QED
    BY <1>1, <2>1, <2>2 DEF WireTodos
<1>2. CASE h \notin ScriptHooks
  <2>1. CASE t = <<"mcp", "hooks", "prompt">>
    BY <1>2, <2>1 DEF WireTodos, Part
  <2>2. CASE t = <<"hooks", "prompt">>
    BY <1>2, <2>2 DEF WireTodos, Part
  <2>3. CASE t = <<"prompt">>
    BY <1>2, <2>3 DEF WireTodos, Part
  <2> QED
    BY <1>2, <2>1, <2>2, <2>3 DEF WireTodos
<1> QED
  BY <1>1, <1>2

LEMMA LeftOf ==
    /\ Left(<<>>) = {}
    /\ \A a : Left(<<a>>) = {a}
    /\ \A a, b : Left(<<a, b>>) = {a, b}
    /\ \A a, b, c : Left(<<a, b, c>>) = {a, b, c}
<1>1. \A a : Left(<<a>>) = {a}
  <2>1. \A a : DOMAIN <<a>> = {1}
    OBVIOUS
  <2> QED
    BY <2>1 DEF Left
<1>2. \A a, b : Left(<<a, b>>) = {a, b}
  <2>1. \A a, b : DOMAIN <<a, b>> = {1, 2}
    OBVIOUS
  <2> QED
    BY <2>1 DEF Left
<1>3. \A a, b, c : Left(<<a, b, c>>) = {a, b, c}
  <2>1. \A a, b, c : DOMAIN <<a, b, c>> = {1, 2, 3}
    OBVIOUS
  <2> QED
    BY <2>1 DEF Left
<1>4. Left(<<>>) = {}
  BY DEF Left
<1> QED
  BY <1>1, <1>2, <1>3, <1>4

LEMMA UndoAdvances ==
    ASSUME NEW h \in Host, NEW t \in UndoTodos(h), t # <<>>
    PROVE  /\ Tail(t) \in UndoTodos(h) /\ Head(t) \in Part \cup {"script"}
           /\ Left(t) \subseteq Left(Tail(t)) \cup {Head(t)}
           /\ Head(t) = "script" => t = <<"script">> /\ h \in ScriptHooks
<1>1. CASE h \in ScriptHooks
  <2>1. CASE t = <<"hooks", "script">>
    BY <1>1, <2>1, LeftOf DEF UndoTodos, Part
  <2>2. CASE t = <<"script">>
    BY <1>1, <2>2, LeftOf DEF UndoTodos, Part
  <2> QED
    BY <1>1, <2>1, <2>2 DEF UndoTodos
<1>2. CASE h \notin ScriptHooks
  <2>1. CASE t = <<"mcp", "prompt", "hooks">>
    BY <1>2, <2>1, LeftOf DEF UndoTodos, Part
  <2>2. CASE t = <<"prompt", "hooks">>
    BY <1>2, <2>2, LeftOf DEF UndoTodos, Part
  <2>3. CASE t = <<"hooks">>
    BY <1>2, <2>3, LeftOf DEF UndoTodos, Part
  <2> QED
    BY <1>2, <2>1, <2>2, <2>3 DEF UndoTodos
<1> QED
  BY <1>1, <1>2

-----------------------------------------------------------------------------
(***************************************************************************)
(* A command at the beginning of the list of a host.                       *)
(***************************************************************************)
LEMMA FirstSteps ==
    ASSUME NEW h \in Host
    PROVE  /\ WireSteps(h) \in WireTodos(h) /\ UndoSteps(h) \in UndoTodos(h)
           /\ h \in ScriptHooks => WireSteps(h) # <<"hooks">>
BY DEF WireSteps, UndoSteps, WireTodos, UndoTodos

\* A command that goes on with another list is still one.
LEMMA TodoReplaced ==
    ASSUME run \in Running, NEW h \in Host, NEW t \in WireTodos(h) \cup UndoTodos(h),
           run' = [run EXCEPT !.todo = t]
    PROVE  /\ run' \in Running /\ run'.todo = t /\ run'.host = run.host /\ run'.ok = run.ok
           /\ run'.command = run.command /\ run'.skip = run.skip /\ run'.version = run.version
<1>1. t \in Todos
  BY DEF Todos
<1> QED
  BY <1>1 DEF Running

\* The steps of an undo are those of every entry that the host may have.
LEMMA AllLeft ==
    ASSUME IntegrateAssumption, TypesOK, Placed, NEW h \in Host, NEW s \in Slot,
           NEW e \in file[h][s].mine
    PROVE  e.part \in Left(UndoSteps(h))
<1>1. e.part \in Part /\ Supports(h, e.part)
  BY DEF TypesOK, Files, Placed, File
<1>2. CASE h \in ScriptHooks
  <2>1. e.part = "hooks"
    BY <1>1, <1>2, IntegrateAssumption DEF Supports, Part
  <2> QED
    BY <1>2, <2>1, LeftOf DEF UndoSteps
<1>3. CASE h \notin ScriptHooks
  BY <1>1, <1>3, LeftOf DEF UndoSteps, Part
<1> QED
  BY <1>2, <1>3

LEMMA InitOK == ASSUME IntegrateAssumption, InInit PROVE IInv
<1>1. PICK f : /\ f = NoFile \/ f = [NoFile EXCEPT !.exists = TRUE, !.user = Item]
               /\ file = [h \in Host |-> [s \in Slot |-> f]]
  BY DEF InInit
<1>2. f \in File /\ f.mine = {}
  BY <1>1, NoFileIsFile DEF File
<1>3. file \in Files /\ \A h \in Host, s \in Slot : file[h][s].mine = {}
  BY <1>1, <1>2 DEF Files
<1>4. TypesOK /\ Placed /\ RunOK
  BY <1>3 DEF InInit, TypesOK, Placed, RunOK
<1>5. ScriptBehindHook
  BY <1>3, IntegrateAssumption DEF ScriptBehindHook, Has, Slot
<1> QED
  BY <1>3, <1>4, <1>5 DEF InInit, IInv, Idle, ScriptReady, UndoneOK, RecordedOK

LEMMA StartOK ==
    ASSUME IntegrateAssumption, IInv, NEW command \in {"integrate", "undo"}, NEW hosts \in SUBSET Host,
           NEW v \in Version, NEW skip \in SUBSET {"hooks", "prompt"}, Start(command, hosts, v, skip)
    PROVE  IInv'
<1>1. PICK h \in hosts :
          run' = [command |-> command, version |-> v, skip |-> skip, rest |-> hosts \ {h}, host |-> h,
                  todo |-> IF command = "integrate" THEN WireSteps(h) ELSE UndoSteps(h), ok |-> {},
                  before |-> file, saved |-> [g \in Host |-> [s \in Slot |-> NoFile]]]
  BY DEF Start
<1>2. UNCHANGED <<file, script, record, kills>>
  BY DEF Start
<1>3. TypesOK' /\ Placed' /\ ScriptBehindHook'
  BY <1>2 DEF IInv, TypesOK, Placed, ScriptBehindHook
<1>4. RunOK'
  <2>1. WireSteps(h) \in Todos /\ UndoSteps(h) \in Todos
    BY FirstSteps DEF Todos
  <2>2. NoFile \in File /\ file \in Files
    BY NoFileIsFile DEF IInv, TypesOK
  <2>3. [g \in Host |-> [s \in Slot |-> NoFile]] \in Files
    BY <2>2 DEF Files
  <2>4. run' \in Running
    BY <1>1, <2>1, <2>2, <2>3 DEF Running
  <2> QED
    BY <1>1, <2>4, FirstSteps DEF RunOK
<1>5. ScriptReady'
  BY <1>1, FirstSteps DEF ScriptReady
<1>6. UndoneOK'
  BY <1>1, <1>2, AllLeft DEF UndoneOK, IInv
<1>7. RecordedOK'
  BY <1>1, <1>2 DEF RecordedOK, Recording, IInv, Start, Idle
<1> QED
  BY <1>3, <1>4, <1>5, <1>6, <1>7 DEF IInv

-----------------------------------------------------------------------------
(***************************************************************************)
(* The steps of integrate.                                                 *)
(***************************************************************************)
LEMMA WirePartOK == ASSUME IntegrateAssumption, IInv, WirePart PROVE IInv'
<1> DEFINE h == run.host
           part == Head(run.todo)
           s == SlotOf(h, part)
           new == WithEntry(file[h][s], part, run.version)
           works == Supports(h, part) /\ ~ Skipped(part) /\ Readable(h, s)
           writes == works /\ new # file[h][s]
<1>1. /\ run.command = "integrate" /\ run.todo # <<>> /\ part # "script"
      /\ UNCHANGED <<script, record, kills>>
      /\ run' = [run EXCEPT !.todo = Tail(@),
                            !.ok = IF works THEN @ \cup {part} ELSE @,
                            !.saved[h][s] = IF writes THEN Backup(h, s) ELSE @]
      /\ file' = IF writes THEN [file EXCEPT ![h][s] = new] ELSE file
  BY DEF WirePart
<1>2. run \in Running /\ run.todo \in WireTodos(h) /\ h \in Host
  BY <1>1 DEF IInv, RunOK, Idle, Running
<1>3. /\ Tail(run.todo) \in WireTodos(h) /\ part \in Part /\ Tail(run.todo) # <<"hooks">>
      /\ h \in ScriptHooks => run.todo = <<"hooks">> /\ part = "hooks"
  BY <1>1, <1>2, WireAdvances
<1>4. s \in Slot /\ file[h][s] \in File /\ run.version \in Version
  BY <1>2 DEF IInv, TypesOK, Files, SlotOf, Slot, Running
<1>5. /\ run'.command = "integrate" /\ run'.host = h /\ run'.todo = Tail(run.todo)
      /\ run'.ok = IF works THEN run.ok \cup {part} ELSE run.ok
      /\ run'.version = run.version /\ run'.skip = run.skip /\ run'.rest = run.rest
      /\ run'.before = run.before
  BY <1>1, <1>2 DEF Running
<1>6. new \in File /\ \A e \in new.mine : e \in file[h][s].mine \/ e.part = part
  BY <1>3, <1>4, EntryAdded
<1>7. /\ file'[h][s] = (IF writes THEN new ELSE file[h][s])
      /\ \A g \in Host, r \in Slot : g # h \/ r # s => file'[g][r] = file[g][r]
      /\ file' \in Files
  BY <1>1, <1>2, <1>4, <1>6 DEF IInv, TypesOK, Files
<1>8. TypesOK'
  BY <1>1, <1>7 DEF IInv, TypesOK
<1>9. Placed'
  <2>1. writes => Supports(h, part) /\ SlotOf(h, part) = s
    OBVIOUS
  <2> HIDE DEF h, part, s, new, works, writes
  <2>2. ASSUME NEW g \in Host, NEW r \in Slot, NEW e \in file'[g][r].mine
        PROVE  Supports(g, e.part) /\ SlotOf(g, e.part) = r
    <3>1. CASE writes /\ g = h /\ r = s
      BY <1>6, <1>7, <2>1, <2>2, <3>1 DEF IInv, Placed
    <3>2. CASE ~ (writes /\ g = h /\ r = s)
      <4>1. file'[g][r] = file[g][r]
        BY <1>7, <3>2
      <4> QED
        BY <2>2, <4>1 DEF IInv, Placed
    <3> QED
      BY <3>1, <3>2
  <2> QED
    BY <2>2 DEF Placed
<1>10. RunOK'
  <2> DEFINE todo == Tail(run.todo)
             ok == IF works THEN run.ok \cup {part} ELSE run.ok
             saved == [run.saved EXCEPT ![h][s] = IF writes THEN Backup(h, s) ELSE @]
  <2>1. todo \in Todos /\ ok \in SUBSET Part
    BY <1>2, <1>3 DEF Running, Todos
  <2>2. saved \in Files
    BY <1>2, <1>4 DEF Running, Files, Backup
  <2>3. run' = [run EXCEPT !.todo = todo, !.ok = ok, !.saved = saved]
    BY <1>1, <1>2 DEF Running
  <2>4. run' \in Running
    <3> HIDE DEF todo, ok, saved
    <3> QED
      BY <1>2, <2>1, <2>2, <2>3 DEF Running
  <2>5. run'.todo \in WireTodos(run'.host)
    BY <1>3, <1>5
  <2> HIDE DEF todo, ok, saved, new, works, writes, part, s, h
  <2> QED
    BY <2>4, <2>5, <1>5 DEF RunOK
<1>11. ScriptBehindHook'
  <2> SUFFICES ASSUME NEW g \in ScriptHooks, Has(file'[g]["config"], "hooks")
               PROVE  script[g] # "absent"
    BY <1>1 DEF ScriptBehindHook
  <2>1. g \in Host /\ "config" \in Slot
    BY IntegrateAssumption DEF Slot
  <2>2. CASE file'[g]["config"] = file[g]["config"]
    BY <2>2 DEF IInv, ScriptBehindHook
  <2>3. CASE g = h /\ s = "config" /\ writes
    BY <1>1, <1>3, <2>3 DEF IInv, ScriptReady, Skipped, Readable
  <2> QED
    BY <1>7, <2>1, <2>2, <2>3
<1>12. ScriptReady' /\ UndoneOK'
  BY <1>3, <1>5 DEF ScriptReady, UndoneOK
<1>13. RecordedOK'
  <2> SUFFICES ASSUME kills = 0, NEW g \in Host, record[g] = Unrecorded, ~ Recording(g)',
                      NEW r \in Slot
               PROVE  file'[g][r].mine = {}
    BY <1>1 DEF RecordedOK
  <2>1. ~ Recording(g) /\ (g = h => ~ works)
    <3>1. g = h => run'.ok = {}
      BY <1>5 DEF Recording
    <3>2. g = h => ~ works /\ run.ok = {}
      <4> HIDE DEF works
      <4> QED
        BY <1>5, <3>1
    <3> QED
      BY <3>2 DEF Recording
  <2>2. file'[g][r] = file[g][r]
    BY <1>7, <2>1
  <2> QED
    BY <2>1, <2>2 DEF IInv, RecordedOK
<1> QED
  BY <1>8, <1>9, <1>10, <1>11, <1>12, <1>13 DEF IInv

LEMMA WireScriptOK == ASSUME IntegrateAssumption, IInv, WireScript PROVE IInv'
<1>1. /\ run.command = "integrate" /\ run.todo # <<>> /\ Head(run.todo) = "script"
      /\ UNCHANGED <<file, record, kills>>
      /\ run' = [run EXCEPT !.todo = Tail(@)]
      /\ script' = IF ~ Skipped("script") /\ Readable(run.host, "config")
                   THEN [script EXCEPT ![run.host] = run.version] ELSE script
  BY DEF WireScript
<1>2. run \in Running /\ run.todo \in WireTodos(run.host) /\ run.host \in Host
  BY <1>1 DEF IInv, RunOK, Idle, Running
<1>3. Tail(run.todo) \in WireTodos(run.host)
  BY <1>1, <1>2, WireAdvances
<1>4. run' \in Running /\ run'.todo = Tail(run.todo) /\ run'.host = run.host
      /\ run'.ok = run.ok /\ run'.command = "integrate" /\ run'.skip = run.skip
  <2>1. run' = [run EXCEPT !.todo = Tail(run.todo)]
    BY <1>1
  <2> QED
    BY <1>1, <1>2, <1>3, <2>1, TodoReplaced
<1>5. RunOK' /\ UndoneOK'
  BY <1>3, <1>4 DEF RunOK, UndoneOK
<1>6. run.version \in Version
  BY <1>2 DEF Running
<1>7. TypesOK' /\ Placed'
  BY <1>1, <1>2, <1>6 DEF IInv, TypesOK, Placed
<1>8. ScriptBehindHook'
  BY <1>1, <1>2, <1>6, IntegrateAssumption DEF IInv, TypesOK, ScriptBehindHook
<1>9. ScriptReady'
  <2> SUFFICES ASSUME "hooks" \notin run.skip, file[run.host]["config"].parses
               PROVE  script'[run.host] # "absent"
    BY <1>1, <1>4 DEF ScriptReady
  <2>1. ~ Skipped("script") /\ Readable(run.host, "config")
    BY <1>2 DEF Skipped, Readable, Running
  <2> QED
    BY <1>1, <1>2, <1>6, <2>1, IntegrateAssumption DEF IInv, TypesOK
<1>10. RecordedOK'
  BY <1>1, <1>4 DEF IInv, RecordedOK, Recording
<1> QED
  BY <1>5, <1>7, <1>8, <1>9, <1>10 DEF IInv

-----------------------------------------------------------------------------
(***************************************************************************)
(* From a host to the next one.                                            *)
(***************************************************************************)
LEMMA NextHostOK ==
    ASSUME IInv, NEW command \in {"integrate", "undo"}, run.command = command, NextHost(command)
    PROVE  RunOK' /\ ScriptReady' /\ (\A g \in Host : ~ Recording(g)')
           /\ (command = "integrate" => run'.command # "undo")
           /\ (run'.command = "undo" => run'.host \in Host /\ run'.todo = UndoSteps(run'.host))
<1>1. run \in Running
  BY DEF IInv, RunOK, Idle
<1>2. CASE run' = Idle
  BY <1>2 DEF RunOK, ScriptReady, Recording, Idle
<1>3. CASE run' # Idle
  <2>1. PICK h \in run.rest :
            run' = [run EXCEPT !.rest = @ \ {h}, !.host = h, !.ok = {},
                               !.todo = IF command = "integrate" THEN WireSteps(h) ELSE UndoSteps(h)]
    BY <1>3 DEF NextHost
  <2>2. h \in Host
    BY <1>1, <2>1 DEF Running
  <2>3. /\ run'.command = command /\ run'.host = h /\ run'.ok = {}
        /\ run'.todo = IF command = "integrate" THEN WireSteps(h) ELSE UndoSteps(h)
    BY <1>1, <2>1 DEF Running
  <2> DEFINE todo == IF command = "integrate" THEN WireSteps(h) ELSE UndoSteps(h)
  <2>4. todo \in Todos
    BY <2>2, FirstSteps DEF Todos
  <2>5. run' \in Running
    <3>1. run.rest \ {h} \in SUBSET Host
      BY <1>1 DEF Running
    <3>2. run' = [run EXCEPT !.rest = run.rest \ {h}, !.host = h, !.ok = {}, !.todo = todo]
      BY <1>1, <2>1 DEF Running
    <3> HIDE DEF todo
    <3> QED
      BY <1>1, <2>2, <2>4, <3>1, <3>2 DEF Running
  <2> QED
    BY <2>2, <2>3, <2>5, FirstSteps DEF RunOK, ScriptReady, Recording
<1> QED
  BY <1>2, <1>3

LEMMA RecordIntegrationOK == ASSUME IntegrateAssumption, IInv, RecordIntegration PROVE IInv'
<1>1. /\ run.command = "integrate" /\ run.todo = <<>>
      /\ record' = [record EXCEPT ![run.host] = Recorded(run.host)]
      /\ NextHost("integrate") /\ UNCHANGED <<file, script, kills>>
  BY DEF RecordIntegration
<1>2. run \in Running /\ run.host \in Host /\ run.ok \in SUBSET Part
  BY <1>1 DEF IInv, RunOK, Idle, Running
<1>3. /\ RunOK' /\ ScriptReady' /\ (\A g \in Host : ~ Recording(g)') /\ run'.command # "undo"
  BY <1>1, NextHostOK
<1>4. Placed' /\ ScriptBehindHook' /\ UndoneOK'
  BY <1>1, <1>3 DEF IInv, Placed, ScriptBehindHook, UndoneOK
<1>5. TypesOK'
  BY <1>1, <1>2 DEF IInv, TypesOK, Recorded
<1>6. RecordedOK'
  <2> SUFFICES ASSUME kills = 0, NEW g \in Host, record'[g] = Unrecorded, NEW r \in Slot
               PROVE  file[g][r].mine = {}
    BY <1>1 DEF RecordedOK
  <2>1. record[g] = Unrecorded /\ ~ Recording(g)
    BY <1>1, <1>2 DEF IInv, TypesOK, Recorded, Recording, Unrecorded, Part
  <2> QED
    BY <2>1 DEF IInv, RecordedOK
<1> QED
  BY <1>3, <1>4, <1>5, <1>6 DEF IInv

-----------------------------------------------------------------------------
(***************************************************************************)
(* The steps of unintegrate.                                               *)
(***************************************************************************)
LEMMA UndoPartOK == ASSUME IntegrateAssumption, IInv, UndoPart PROVE IInv'
<1> DEFINE h == run.host
           part == Head(run.todo)
           s == SlotOf(h, part)
           undoes == Supports(h, part) /\ Has(file[h][s], part)
<1>1. /\ run.command = "undo" /\ run.todo # <<>> /\ part # "script"
      /\ UNCHANGED <<script, record, kills>>
  BY DEF UndoPart
<1>2. run \in Running /\ run.todo \in UndoTodos(h) /\ h \in Host
  BY <1>1 DEF IInv, RunOK, Idle, Running
<1>3. /\ Tail(run.todo) \in UndoTodos(h) /\ part \in Part
      /\ Left(run.todo) \subseteq Left(Tail(run.todo)) \cup {part}
  BY <1>1, <1>2, UndoAdvances
<1>4. CASE run' = Idle /\ UNCHANGED file
  <2>1. TypesOK' /\ Placed' /\ ScriptBehindHook' /\ RecordedOK'
    BY <1>1, <1>4 DEF IInv, TypesOK, Placed, ScriptBehindHook, RecordedOK, Recording, Idle
  <2>2. RunOK' /\ ScriptReady' /\ UndoneOK'
    BY <1>4 DEF RunOK, ScriptReady, UndoneOK, Idle
  <2> QED
    BY <2>1, <2>2 DEF IInv
<1>5. CASE /\ run' = [run EXCEPT !.todo = Tail(run.todo)]
           /\ file' = IF undoes THEN [file EXCEPT ![h][s] = WithoutEntry(file[h][s], part, s)] ELSE file
  <2>1. s \in Slot /\ file[h][s] \in File
    BY <1>2 DEF IInv, TypesOK, Files, SlotOf, Slot
  <2>2. /\ WithoutEntry(file[h][s], part, s) \in File
        /\ WithoutEntry(file[h][s], part, s).mine \subseteq {e \in file[h][s].mine : e.part # part}
    BY <1>3, <2>1, EntryTaken
  <2>3. /\ run' \in Running /\ run'.command = "undo" /\ run'.host = h
        /\ run'.todo = Tail(run.todo)
    BY <1>1, <1>2, <1>3, <1>5, TodoReplaced
  <2>4. /\ \A g \in Host, r \in Slot : file'[g][r].mine \subseteq file[g][r].mine
        /\ file' \in Files
        /\ undoes => \A e \in file'[h][s].mine : e.part # part
    BY <1>2, <1>5, <2>1, <2>2 DEF IInv, TypesOK, Files
  <2>5. TypesOK' /\ Placed'
    BY <1>1, <2>4 DEF IInv, TypesOK, Placed
  <2>6. RunOK' /\ ScriptReady'
    BY <1>3, <2>3 DEF RunOK, ScriptReady
  <2>7. ScriptBehindHook'
    BY <1>1, <2>4, IntegrateAssumption DEF IInv, ScriptBehindHook, Has, Slot
  <2>8. UndoneOK'
    <3> SUFFICES ASSUME NEW r \in Slot, NEW e \in file'[h][r].mine
                 PROVE  e.part \in Left(Tail(run.todo))
      BY <2>3 DEF UndoneOK
    <3>1. e \in file[h][r].mine
      BY <1>2, <2>4
    <3>2. e.part \in Left(run.todo) /\ Supports(h, e.part) /\ SlotOf(h, e.part) = r
      BY <1>1, <1>2, <3>1 DEF IInv, UndoneOK, Placed
    <3>3. e.part # part
      BY <2>4, <3>1, <3>2 DEF Has
    <3> QED
      BY <1>3, <3>2, <3>3
  <2>9. RecordedOK'
    BY <1>1, <2>3, <2>4 DEF IInv, RecordedOK, Recording
  <2> QED
    BY <2>5, <2>6, <2>7, <2>8, <2>9 DEF IInv
<1> QED
  BY <1>4, <1>5 DEF UndoPart

LEMMA UndoScriptOK == ASSUME IntegrateAssumption, IInv, UndoScript PROVE IInv'
<1>1. /\ run.command = "undo" /\ run.todo # <<>> /\ Head(run.todo) = "script"
      /\ UNCHANGED <<file, record, kills>>
      /\ run' = [run EXCEPT !.todo = Tail(run.todo)]
      /\ script' = IF script[run.host] = run.version
                   THEN [script EXCEPT ![run.host] = "absent"] ELSE script
  BY DEF UndoScript
<1>2. run \in Running /\ run.todo \in UndoTodos(run.host) /\ run.host \in Host
  BY <1>1 DEF IInv, RunOK, Idle, Running
<1>3. /\ Tail(run.todo) \in UndoTodos(run.host) /\ run.todo = <<"script">>
      /\ Left(run.todo) \subseteq Left(Tail(run.todo)) \cup {"script"}
  BY <1>1, <1>2, UndoAdvances
<1>4. /\ run' \in Running /\ run'.command = "undo" /\ run'.host = run.host
      /\ run'.todo = Tail(run.todo)
  BY <1>1, <1>2, <1>3, TodoReplaced
<1>5. \A r \in Slot : file[run.host][r].mine = {}
  <2> SUFFICES ASSUME NEW r \in Slot, NEW e \in file[run.host][r].mine PROVE FALSE
    OBVIOUS
  <2>1. e.part = "script"
    BY <1>1, <1>3, LeftOf DEF IInv, UndoneOK
  <2>2. Supports(run.host, e.part) /\ e.part \in Part
    BY <1>2 DEF IInv, TypesOK, Files, File, Placed
  <2> QED
    BY <2>1, <2>2 DEF Part
<1>6. TypesOK' /\ Placed' /\ RecordedOK'
  BY <1>1, <1>4 DEF IInv, TypesOK, Placed, RecordedOK, Recording
<1>7. ScriptBehindHook'
  BY <1>1, <1>5, IntegrateAssumption DEF IInv, TypesOK, ScriptBehindHook, Has, Slot
<1>8. RunOK' /\ ScriptReady' /\ UndoneOK'
  BY <1>1, <1>3, <1>4, <1>5 DEF RunOK, ScriptReady, UndoneOK
<1> QED
  BY <1>6, <1>7, <1>8 DEF IInv

LEMMA DeregisterOK ==
    ASSUME IntegrateAssumption, IInv, Deregister
    PROVE  /\ IInv' /\ record' = [record EXCEPT ![run.host] = Unrecorded] /\ UNCHANGED file
           /\ run.host \in Host /\ \A r \in Slot : file[run.host][r].mine = {}
<1>1. /\ run.command = "undo" /\ run.todo = <<>>
      /\ record' = [record EXCEPT ![run.host] = Unrecorded]
      /\ NextHost("undo") /\ UNCHANGED <<file, script, kills>>
  BY DEF Deregister
<1>2. run.host \in Host
  BY <1>1 DEF IInv, RunOK, Idle, Running
<1>3. /\ RunOK' /\ ScriptReady'
      /\ run'.command = "undo" => run'.host \in Host /\ run'.todo = UndoSteps(run'.host)
  BY <1>1, NextHostOK
<1>4. \A r \in Slot : file[run.host][r].mine = {}
  BY <1>1, LeftOf DEF IInv, UndoneOK
<1>5. TypesOK' /\ Placed' /\ ScriptBehindHook'
  BY <1>1, <1>2 DEF IInv, TypesOK, Placed, ScriptBehindHook
<1>6. UndoneOK'
  BY <1>1, <1>3, AllLeft DEF IInv, UndoneOK
<1>7. RecordedOK'
  BY <1>1, <1>2, <1>4 DEF IInv, TypesOK, RecordedOK, Recording
<1> QED
  BY <1>1, <1>2, <1>3, <1>4, <1>5, <1>6, <1>7 DEF IInv

-----------------------------------------------------------------------------
(***************************************************************************)
(* Kills and edits, and the step of the specification.                     *)
(***************************************************************************)
LEMMA KillOK == ASSUME IInv, Kill PROVE IInv'
<1>1. run' = Idle /\ kills' = kills + 1 /\ UNCHANGED <<file, script, record>>
  BY DEF Kill
<1>2. TypesOK' /\ Placed' /\ ScriptBehindHook' /\ RecordedOK'
  BY <1>1 DEF IInv, TypesOK, Placed, ScriptBehindHook, RecordedOK
<1> QED
  BY <1>1, <1>2 DEF IInv, RunOK, ScriptReady, UndoneOK, Idle

LEMMA EditFileOK == ASSUME IInv, NEW h \in Host, NEW s \in Slot, EditFile(h, s) PROVE IInv'
<1>1. run' = run /\ run = Idle /\ UNCHANGED <<script, record, kills>>
  BY DEF EditFile
<1>2. PICK f : /\ file' = [file EXCEPT ![h][s] = f]
               /\ \/ \E U \in SUBSET Item : f = [file[h][s] EXCEPT !.exists = TRUE, !.user = U]
                  \/ f = [file[h][s] EXCEPT !.exists = TRUE, !.parses = ~ @]
  BY DEF EditFile
<1>3. f \in File /\ f.mine = file[h][s].mine
  <2>1. file[h][s] \in File
    BY DEF IInv, TypesOK, Files
  <2>2. CASE \E U \in SUBSET Item : f = [file[h][s] EXCEPT !.exists = TRUE, !.user = U]
    BY <2>1, <2>2 DEF File
  <2>3. CASE f = [file[h][s] EXCEPT !.exists = TRUE, !.parses = ~ @]
    <3>1. (~ file[h][s].parses) \in BOOLEAN
      OBVIOUS
    <3> QED
      BY <2>1, <2>3, <3>1 DEF File
  <2> QED
    BY <1>2, <2>2, <2>3
<1>4. file' \in Files /\ \A g \in Host, r \in Slot : file'[g][r].mine = file[g][r].mine
  BY <1>2, <1>3 DEF IInv, TypesOK, Files
<1>5. TypesOK' /\ Placed' /\ RecordedOK'
  BY <1>1, <1>4 DEF IInv, TypesOK, Placed, RecordedOK, Recording
<1>6. ScriptBehindHook'
  BY <1>1, <1>4, IntegrateAssumption DEF IInv, ScriptBehindHook, Has, Slot
<1> QED
  BY <1>1, <1>5, <1>6 DEF IInv, RunOK, ScriptReady, UndoneOK, Idle

LEMMA EditScriptOK == ASSUME IInv, NEW h \in Host, EditScript(h) PROVE IInv'
<1>1. /\ run' = run /\ run = Idle /\ UNCHANGED <<file, record, kills>>
      /\ script' = [script EXCEPT ![h] = "edited"]
  BY DEF EditScript
<1>2. TypesOK' /\ Placed' /\ RecordedOK' /\ ScriptBehindHook'
  BY <1>1 DEF IInv, TypesOK, Placed, RecordedOK, Recording, ScriptBehindHook
<1> QED
  BY <1>1, <1>2 DEF IInv, RunOK, ScriptReady, UndoneOK, Idle

LEMMA NextOK == ASSUME IntegrateAssumption, IInv, [InNext]_inVars PROVE IInv'
<1>1. CASE UNCHANGED inVars
  BY <1>1 DEF inVars, IInv, TypesOK, Placed, RunOK, ScriptBehindHook, ScriptReady, UndoneOK,
              RecordedOK, Recording
<1>2. ASSUME NEW hosts \in SUBSET Host, NEW v \in Version, NEW skip \in SUBSET {"hooks", "prompt"},
             StartIntegrate(hosts, v, skip)
      PROVE  IInv'
  BY <1>2, StartOK DEF StartIntegrate
<1>3. ASSUME NEW hosts \in SUBSET Host, StartUndo(hosts) PROVE IInv'
  <2>1. PICK v \in Version : Start("undo", hosts, v, {})
    BY <1>3 DEF StartUndo
  <2> QED
    BY <2>1, StartOK
<1>4. CASE WirePart \/ WireScript \/ RecordIntegration
  BY <1>4, WirePartOK, WireScriptOK, RecordIntegrationOK
<1>5. CASE UndoPart \/ UndoScript \/ Deregister
  BY <1>5, UndoPartOK, UndoScriptOK, DeregisterOK
<1>6. CASE Kill \/ \E h \in Host : EditScript(h) \/ \E s \in Slot : EditFile(h, s)
  BY <1>6, KillOK, EditScriptOK, EditFileOK
<1> QED
  BY <1>1, <1>2, <1>3, <1>4, <1>5, <1>6 DEF InNext

LEMMA Invariant == InSpec => []IInv
<1>1. InInit => IInv
  BY InitOK, IntegrateAssumption
<1>2. IInv /\ [InNext]_inVars => IInv'
  BY NextOK, IntegrateAssumption
<1> QED
  BY <1>1, <1>2, PTL DEF InSpec

-----------------------------------------------------------------------------
(***************************************************************************)
(* Types, and at most one entry for a part in a file: wiring replaces the  *)
(* entry of an earlier run (do_wire, do_wire_hooks, do_wire_sp_json).      *)
(***************************************************************************)
THEOREM EntriesTyped == InSpec => []InTypeOK
<1>1. ASSUME IInv PROVE InTypeOK
  <2>1. \A h \in Host, s \in Slot : file[h][s] \in File
    BY <1>1 DEF IInv, TypesOK, Files
  <2>2. file \in [Host -> [Slot -> [exists : BOOLEAN, parses : BOOLEAN, user : SUBSET Item,
                                    mine : SUBSET [part : Part, version : Version]]]]
    BY <1>1 DEF IInv, TypesOK, Files, File
  <2>3. ASSUME NEW h \in Host, NEW s \in Slot, NEW p \in Part
        PROVE  Cardinality({e \in file[h][s].mine : e.part = p}) <= 1
    <3> DEFINE of == {e \in file[h][s].mine : e.part = p}
    <3>1. Single(file[h][s].mine)
      BY <2>1 DEF File
    <3>2. CASE of = {}
      BY <3>2, FS_EmptySet
    <3>3. CASE \E e : of = {e}
      BY <3>3, FS_Singleton
    <3>4. of = {} \/ \E e : of = {e}
      BY <3>1 DEF Single
    <3> QED
      BY <3>2, <3>3, <3>4
  <2> QED
    BY <1>1, <2>2, <2>3 DEF IInv, TypesOK, InTypeOK
<1> QED
  BY <1>1, Invariant, PTL

(***************************************************************************)
(* A config never names a hook script that is not there, wherever the      *)
(* process is killed (do_wire_hermes_hooks, do_undo_hermes).               *)
(***************************************************************************)
THEOREM ScriptAlwaysThere == InSpec => []ScriptBehindHook
<1>1. IInv => ScriptBehindHook
  BY DEF IInv
<1> QED
  BY <1>1, Invariant, PTL

(***************************************************************************)
(* Without a kill, every host with an entry has a record, so that          *)
(* unintegrate --all finds it (record_integration).                        *)
(***************************************************************************)
THEOREM RecordsComplete == InSpec => []WiredIsRecorded
<1>1. IInv => WiredIsRecorded
  BY DEF IInv, RecordedOK, Recording, WiredIsRecorded, Idle
<1> QED
  BY <1>1, Invariant, PTL

(***************************************************************************)
(* A host loses its record only when nothing of mnem is left in its files, *)
(* whatever the record says was wired (unintegrate.rs run, do_undo).       *)
(***************************************************************************)
THEOREM UndoIsComplete == InSpec => UndoLeavesNothing
<1> DEFINE Complete == \A h \in Host : record[h] # Unrecorded /\ record'[h] = Unrecorded =>
                           \A s \in Slot : file'[h][s].mine = {}
<1>1. ASSUME IInv, [InNext]_inVars PROVE [Complete]_inVars
  <2>1. CASE Deregister
    BY <1>1, <2>1, DeregisterOK, IntegrateAssumption DEF IInv, TypesOK
  <2>2. CASE RecordIntegration
    <3>1. /\ run.command = "integrate" /\ record' = [record EXCEPT ![run.host] = Recorded(run.host)]
      BY <2>2 DEF RecordIntegration
    <3>2. run.host \in Host /\ run.ok \in SUBSET Part
      BY <1>1, <3>1 DEF IInv, RunOK, Idle, Running
    <3>3. \A h \in Host : record'[h] = Unrecorded => record[h] = Unrecorded
      BY <1>1, <3>1, <3>2 DEF IInv, TypesOK, Recorded, Unrecorded, Part
    <3> QED
      BY <3>3
  <2>3. CASE UNCHANGED record
    BY <2>3
  <2>4. ASSUME NEW hosts \in SUBSET Host,
               \/ \E v \in Version, skip \in SUBSET {"hooks", "prompt"} : StartIntegrate(hosts, v, skip)
               \/ StartUndo(hosts)
        PROVE  UNCHANGED record
    BY <2>4 DEF StartIntegrate, StartUndo, Start
  <2>5. CASE \E h \in Host : EditScript(h) \/ \E s \in Slot : EditFile(h, s)
    BY <2>3, <2>5 DEF EditScript, EditFile
  <2>6. CASE WirePart \/ WireScript \/ UndoPart \/ UndoScript \/ Kill
    BY <2>3, <2>6 DEF WirePart, WireScript, UndoPart, UndoScript, Kill
  <2>7. CASE UNCHANGED inVars
    BY <2>7
  <2> QED
    BY <1>1, <2>1, <2>2, <2>3, <2>4, <2>5, <2>6, <2>7 DEF InNext
<1> QED
  BY <1>1, Invariant, PTL DEF InSpec, UndoLeavesNothing

-----------------------------------------------------------------------------
(***************************************************************************)
(* Backups.  While integrate runs nobody else writes, so the user's items  *)
(* stay; and a file that is still to be written, of a host that keeps each *)
(* part in a file of its own, is as the command found it.                  *)
(***************************************************************************)
ToCome(h, s) ==
    \/ h \in run.rest
    \/ h = run.host /\ \E p \in Part : p \in Left(run.todo) /\ Supports(h, p) /\ SlotOf(h, p) = s

BackedUp ==
    run.command = "integrate" =>
        /\ run.host \notin run.rest
        /\ \A h \in Host, s \in Slot :
              /\ file[h][s].user = run.before[h][s].user
              /\ file[h][s] # run.before[h][s] =>
                    /\ run.saved[h][s].user = run.before[h][s].user
                    /\ h \notin JsonPrompt => run.saved[h][s] = run.before[h][s]
              /\ h \notin JsonPrompt /\ ToCome(h, s) => file[h][s] = run.before[h][s]

LEMMA WireLeft ==
    ASSUME NEW h \in Host, NEW t \in WireTodos(h), t # <<>>
    PROVE  /\ Left(Tail(t)) \subseteq Left(t) /\ Head(t) \in Left(t)
           /\ Head(t) \notin Left(Tail(t))
<1>1. CASE h \in ScriptHooks
  <2>1. CASE t = <<"script", "hooks">>
    <3>1. Tail(t) = <<"hooks">> /\ Head(t) = "script"
      BY <2>1
    <3> QED
      BY <2>1, <3>1, LeftOf
  <2>2. CASE t = <<"hooks">>
    <3>1. Tail(t) = <<>> /\ Head(t) = "hooks"
      BY <2>2
    <3> QED
      BY <2>2, <3>1, LeftOf
  <2> QED
    BY <1>1, <2>1, <2>2 DEF WireTodos
<1>2. CASE h \notin ScriptHooks
  <2>1. CASE t = <<"mcp", "hooks", "prompt">>
    <3>1. Tail(t) = <<"hooks", "prompt">> /\ Head(t) = "mcp"
      BY <2>1
    <3> QED
      BY <2>1, <3>1, LeftOf
  <2>2. CASE t = <<"hooks", "prompt">>
    <3>1. Tail(t) = <<"prompt">> /\ Head(t) = "hooks"
      BY <2>2
    <3> QED
      BY <2>2, <3>1, LeftOf
  <2>3. CASE t = <<"prompt">>
    <3>1. Tail(t) = <<>> /\ Head(t) = "prompt"
      BY <2>3
    <3> QED
      BY <2>3, <3>1, LeftOf
  <2> QED
    BY <1>2, <2>1, <2>2, <2>3 DEF WireTodos
<1> QED
  BY <1>1, <1>2

\* Only a host with a JSON prompt keeps two parts in one file.
LEMMA OneSlotEach ==
    ASSUME IntegrateAssumption, NEW h \in Host \ JsonPrompt, NEW p \in Part, NEW q \in Part,
           Supports(h, p), Supports(h, q), SlotOf(h, p) = SlotOf(h, q)
    PROVE  p = q
<1>1. \A a \in Part : Supports(h, a) =>
          /\ a = "mcp" => h \notin ScriptHooks /\ SlotOf(h, a) = "config"
          /\ a = "hooks" => SlotOf(h, a) = IF h \in ScriptHooks THEN "config" ELSE "settings"
          /\ a = "prompt" => SlotOf(h, a) = "rules"
  <2>1. Supports(h, "mcp") => h \notin ScriptHooks /\ SlotOf(h, "mcp") = "config"
    BY DEF Supports, SlotOf
  <2>2. Supports(h, "hooks") => SlotOf(h, "hooks") = IF h \in ScriptHooks THEN "config" ELSE "settings"
    BY IntegrateAssumption DEF Supports, SlotOf
  <2>3. Supports(h, "prompt") => SlotOf(h, "prompt") = "rules"
    BY DEF Supports, SlotOf
  <2> QED
    BY <2>1, <2>2, <2>3
<1>2. p \in {"mcp", "hooks", "prompt"} /\ q \in {"mcp", "hooks", "prompt"}
  BY DEF Part
<1>3. CASE h \in ScriptHooks
  BY <1>1, <1>2, <1>3
<1>4. CASE h \notin ScriptHooks
  BY <1>1, <1>2, <1>4
<1> QED
  BY <1>3, <1>4

LEMMA UserKept ==
    ASSUME NEW f \in File, NEW p \in Part, NEW v \in Version
    PROVE  WithEntry(f, p, v).user = f.user
BY DEF WithEntry, File

LEMMA BackedUpByPart == ASSUME IntegrateAssumption, IInv, BackedUp, WirePart PROVE BackedUp'
<1> DEFINE h == run.host
           part == Head(run.todo)
           s == SlotOf(h, part)
           new == WithEntry(file[h][s], part, run.version)
           works == Supports(h, part) /\ ~ Skipped(part) /\ Readable(h, s)
           writes == works /\ new # file[h][s]
<1>1. /\ run.command = "integrate" /\ run.todo # <<>> /\ part # "script"
      /\ run' = [run EXCEPT !.todo = Tail(@),
                            !.ok = IF works THEN @ \cup {part} ELSE @,
                            !.saved[h][s] = IF writes THEN Backup(h, s) ELSE @]
      /\ file' = IF writes THEN [file EXCEPT ![h][s] = new] ELSE file
  BY DEF WirePart
<1>2. run \in Running /\ run.todo \in WireTodos(h) /\ h \in Host
  BY <1>1 DEF IInv, RunOK, Idle, Running
<1>3. part \in Part /\ Left(Tail(run.todo)) \subseteq Left(run.todo)
      /\ part \in Left(run.todo) /\ part \notin Left(Tail(run.todo))
  BY <1>1, <1>2, WireAdvances, WireLeft
<1>4. s \in Slot /\ file[h][s] \in File /\ run.version \in Version
  BY <1>2 DEF IInv, TypesOK, Files, SlotOf, Slot, Running
<1>5. /\ run'.host = h /\ run'.todo = Tail(run.todo) /\ run'.rest = run.rest
      /\ run'.before = run.before
      /\ run'.saved[h][s] = IF writes THEN file[h][s] ELSE run.saved[h][s]
      /\ \A g \in Host, r \in Slot : g # h \/ r # s => run'.saved[g][r] = run.saved[g][r]
  BY <1>1, <1>2, <1>4 DEF Running, Files, Backup
<1>6. new.user = file[h][s].user
  BY <1>3, <1>4, UserKept
<1>7. /\ file'[h][s] = (IF writes THEN new ELSE file[h][s])
      /\ \A g \in Host, r \in Slot : g # h \/ r # s => file'[g][r] = file[g][r]
  BY <1>1, <1>2, <1>4 DEF IInv, TypesOK, Files
<1>8. \A g \in Host, r \in Slot : ToCome(g, r)' => ToCome(g, r)
  BY <1>3, <1>5 DEF ToCome
<1>9. ASSUME h \notin JsonPrompt, works, NEW g \in Host, NEW r \in Slot, g = h, r = s
      PROVE  file[h][s] = run.before[h][s] /\ ~ ToCome(g, r)'
  <2>1. ToCome(h, s)
    BY <1>3, <1>9 DEF ToCome
  <2>2. file[h][s] = run.before[h][s] /\ h \notin run.rest
    BY <1>1, <1>2, <1>4, <1>9, <2>1 DEF BackedUp
  <2>3. ASSUME NEW q \in Part, q \in Left(Tail(run.todo)), Supports(h, q), SlotOf(h, q) = s
        PROVE  FALSE
    BY <1>2, <1>3, <1>9, <2>3, OneSlotEach, IntegrateAssumption
  <2> QED
    BY <1>5, <1>9, <2>2, <2>3 DEF ToCome
<1>10. ASSUME NEW g \in Host, NEW r \in Slot
       PROVE  /\ file'[g][r].user = run'.before[g][r].user
              /\ file'[g][r] # run'.before[g][r] =>
                    /\ run'.saved[g][r].user = run'.before[g][r].user
                    /\ g \notin JsonPrompt => run'.saved[g][r] = run'.before[g][r]
              /\ g \notin JsonPrompt /\ ToCome(g, r)' => file'[g][r] = run'.before[g][r]
  <2>0. /\ file[g][r].user = run.before[g][r].user
        /\ file[g][r] # run.before[g][r] =>
              /\ run.saved[g][r].user = run.before[g][r].user
              /\ g \notin JsonPrompt => run.saved[g][r] = run.before[g][r]
        /\ g \notin JsonPrompt /\ ToCome(g, r) => file[g][r] = run.before[g][r]
    BY <1>1, <1>10 DEF BackedUp
  <2> HIDE DEF h, part, s, new, works, writes
  <2>1. CASE (g # h \/ r # s) \/ ~ writes
    <3>1. file'[g][r] = file[g][r] /\ run'.saved[g][r] = run.saved[g][r]
      BY <1>5, <1>7, <1>10, <2>1
    <3> QED
      BY <1>5, <1>8, <1>10, <2>0, <3>1
  <2>2. CASE g = h /\ r = s /\ writes
    <3>1. works
      BY <2>2 DEF writes
    <3>2. file'[g][r].user = file[g][r].user /\ run'.saved[g][r] = file[g][r]
      BY <1>5, <1>6, <1>7, <2>2
    <3>3. g \notin JsonPrompt => file[g][r] = run.before[g][r] /\ ~ ToCome(g, r)'
      BY <1>9, <1>10, <2>2, <3>1
    <3> QED
      BY <1>5, <2>0, <3>2, <3>3
  <2> QED
    BY <2>1, <2>2
<1> QED
  BY <1>1, <1>5, <1>10 DEF BackedUp

LEMMA BackedUpStep == ASSUME IntegrateAssumption, IInv, BackedUp, [InNext]_inVars PROVE BackedUp'
<1>i. ASSUME run'.command # "integrate" PROVE BackedUp'
  BY <1>i DEF BackedUp
<1>1. CASE UNCHANGED inVars
  <2>1. file' = file /\ run' = run
    BY <1>1 DEF inVars
  <2>2. \A h \in Host, s \in Slot : ToCome(h, s)' <=> ToCome(h, s)
    BY <2>1 DEF ToCome
  <2> QED
    BY <2>1, <2>2 DEF BackedUp
<1>2. ASSUME NEW hosts \in SUBSET Host, NEW v \in Version, NEW skip \in SUBSET {"hooks", "prompt"},
             StartIntegrate(hosts, v, skip)
      PROVE  BackedUp'
  <2>1. PICK h \in hosts :
          run' = [command |-> "integrate", version |-> v, skip |-> skip, rest |-> hosts \ {h}, host |-> h,
                  todo |-> WireSteps(h), ok |-> {},
                  before |-> file, saved |-> [g \in Host |-> [s \in Slot |-> NoFile]]]
    BY <1>2 DEF StartIntegrate, Start
  <2>2. file' = file
    BY <1>2 DEF StartIntegrate, Start
  <2>3. run'.before = file /\ run'.host \notin run'.rest
    BY <2>1
  <2> QED
    BY <2>2, <2>3 DEF BackedUp
<1>3. ASSUME NEW hosts \in SUBSET Host, StartUndo(hosts) PROVE BackedUp'
  BY <1>3, <1>i DEF StartUndo, Start
<1>4. CASE WirePart
  BY <1>4, BackedUpByPart
<1>5. CASE WireScript
  <2>1. /\ run.command = "integrate" /\ run.todo # <<>> /\ file' = file
        /\ run' = [run EXCEPT !.todo = Tail(@)]
    BY <1>5 DEF WireScript
  <2>2. run \in Running /\ run.todo \in WireTodos(run.host) /\ run.host \in Host
    BY <2>1 DEF IInv, RunOK, Idle, Running
  <2>3. Left(Tail(run.todo)) \subseteq Left(run.todo)
    BY <2>1, <2>2, WireLeft
  <2>4. /\ run'.host = run.host /\ run'.todo = Tail(run.todo) /\ run'.rest = run.rest
        /\ run'.before = run.before /\ run'.saved = run.saved
    BY <2>1, <2>2 DEF Running
  <2>5. \A g \in Host, r \in Slot : ToCome(g, r)' => ToCome(g, r)
    BY <2>3, <2>4 DEF ToCome
  <2> QED
    BY <2>1, <2>4, <2>5 DEF BackedUp
<1>6. CASE RecordIntegration
  <2>1. run.command = "integrate" /\ file' = file /\ NextHost("integrate")
    BY <1>6 DEF RecordIntegration
  <2>2. run \in Running
    BY <2>1 DEF IInv, RunOK, Idle
  <2>3. CASE run' = Idle
    BY <1>i, <2>3 DEF Idle
  <2>4. ASSUME NEW h \in run.rest,
               run' = [run EXCEPT !.rest = @ \ {h}, !.host = h, !.ok = {}, !.todo = WireSteps(h)]
        PROVE  BackedUp'
    <3>1. /\ run'.host = h /\ run'.rest = run.rest \ {h}
          /\ run'.before = run.before /\ run'.saved = run.saved
      BY <2>2, <2>4 DEF Running
    <3>2. \A g \in Host, r \in Slot : ToCome(g, r)' => ToCome(g, r)
      BY <2>4, <3>1 DEF ToCome
    <3> QED
      BY <2>1, <3>1, <3>2 DEF BackedUp
  <2> QED
    BY <2>1, <2>3, <2>4 DEF NextHost
<1>7. CASE UndoPart \/ UndoScript \/ Deregister
  <2>1. run.command = "undo"
    BY <1>7 DEF UndoPart, UndoScript, Deregister
  <2>2. run \in Running
    BY <2>1 DEF IInv, RunOK, Idle
  <2>3. CASE run' = Idle
    BY <1>i, <2>3 DEF Idle
  <2>4. CASE run' = [run EXCEPT !.todo = Tail(run.todo)]
    <3>1. run'.command = "undo"
      BY <2>1, <2>2, <2>4 DEF Running
    <3> QED
      BY <1>i, <3>1
  <2>5. ASSUME NEW h \in run.rest,
               run' = [run EXCEPT !.rest = @ \ {h}, !.host = h, !.ok = {}, !.todo = UndoSteps(h)]
        PROVE  BackedUp'
    <3>1. run'.command = "undo"
      BY <2>1, <2>2, <2>5 DEF Running
    <3> QED
      BY <1>i, <3>1
  <2>6. CASE UndoPart
    BY <2>3, <2>4, <2>6 DEF UndoPart
  <2>7. CASE UndoScript
    BY <2>4, <2>7 DEF UndoScript
  <2>8. CASE Deregister
    BY <2>3, <2>5, <2>8 DEF Deregister, NextHost
  <2> QED
    BY <1>7, <2>6, <2>7, <2>8
<1>8. CASE Kill \/ \E h \in Host : EditScript(h) \/ \E s \in Slot : EditFile(h, s)
  <2>1. run' = Idle
    BY <1>8 DEF Kill, EditScript, EditFile
  <2> QED
    BY <1>i, <2>1 DEF Idle
<1> QED
  BY <1>1, <1>2, <1>3, <1>4, <1>5, <1>6, <1>7, <1>8 DEF InNext

(***************************************************************************)
(* Of every file that integrate has changed there is a backup with what    *)
(* the user had in it, and, but for configs that also hold the prompt, it  *)
(* is the file as the command found it, whatever parts fail, are skipped   *)
(* or are already there (do_wire, do_wire_hooks, do_wire_sp_markdown).     *)
(***************************************************************************)
THEOREM BackupsComplete == InSpec => []BackupsAreOriginals
<1>1. InInit => BackedUp
  BY DEF InInit, BackedUp, Idle
<1>2. IInv /\ BackedUp /\ [InNext]_inVars => BackedUp'
  BY BackedUpStep, IntegrateAssumption
<1>3. BackedUp => BackupsAreOriginals
  BY DEF BackedUp, BackupsAreOriginals
<1> QED
  BY <1>1, <1>2, <1>3, Invariant, PTL DEF InSpec

-----------------------------------------------------------------------------
(***************************************************************************)
(* Revert, for any ids and blocks, any length of the log, and any diff of  *)
(* trees that is honest; what holds of exact diffs only says so.           *)
(***************************************************************************)
LogVersion == [nodes : Tree(Key, Value), edges : Tree(EdgeKey, EdgeBlock),
               tombs : SUBSET Key, reverts : Nat]

\* The changes with the last word: one to a key.
OneEach(C) == \A c, d \in C : c[1] = d[1] => c = d

LEMMA FinalIs ==
    ASSUME NEW s, NEW P \in SUBSET DOMAIN s, \A p \in DOMAIN s : p \in Nat
    PROVE  /\ OneEach(Final(s, P))
           /\ \A c \in Final(s, P) : \E p \in P : c = s[p]
           /\ (\A p, q \in P : s[p][1] = s[q][1] => p = q) => \A p \in P : s[p] \in Final(s, P)
<1>1. ASSUME NEW p \in P, NEW q \in P, s[p][1] = s[q][1], q <= p, p <= q PROVE p = q
  BY <1>1
<1>2. OneEach(Final(s, P))
  BY <1>1 DEF OneEach, Final
<1>3. \A c \in Final(s, P) : \E p \in P : c = s[p]
  BY DEF Final
<1>4. ASSUME \A p, q \in P : s[p][1] = s[q][1] => p = q, NEW p \in P PROVE s[p] \in Final(s, P)
  <2>1. \A q \in P : s[q][1] = s[p][1] => q <= p
    BY <1>4
  <2> QED
    BY <2>1 DEF Final
<1> QED
  BY <1>2, <1>3, <1>4

LEMMA BeforesIs ==
    ASSUME NEW C, OneEach(C)
    PROVE  /\ Befores(C) = [k \in Keys(C) |-> Befores(C)[k]] /\ DOMAIN Befores(C) = Keys(C)
           /\ \A c \in C : c[1] \in Keys(C) /\ Befores(C)[c[1]] = c[2]
           /\ \A k \in Keys(C) : \E c \in C : c[1] = k /\ Befores(C)[k] = c[2]
<1>1. Befores(C) = [k \in Keys(C) |-> Befores(C)[k]] /\ DOMAIN Befores(C) = Keys(C)
  BY DEF Befores
<1>2. ASSUME NEW c \in C PROVE c[1] \in Keys(C) /\ Befores(C)[c[1]] = c[2]
  <2> DEFINE d == CHOOSE d \in C : d[1] = c[1]
  <2>1. d \in C /\ d[1] = c[1]
    OBVIOUS
  <2>2. d = c
    BY <2>1 DEF OneEach
  <2>3. c[1] \in Keys(C)
    BY DEF Keys
  <2> QED
    BY <2>2, <2>3 DEF Befores
<1>3. \A k \in Keys(C) : \E c \in C : c[1] = k
  BY DEF Keys
<1> QED
  BY <1>1, <1>2, <1>3

(***************************************************************************)
(* What the inverse stages, in the words of the changes: the removals and  *)
(* the additions are those of calls, and every call has its effect if the  *)
(* diff names no key twice.                                                *)
(***************************************************************************)
Once(s) == (\A p \in DOMAIN s : p \in Nat) /\ \A p, q \in DOMAIN s : s[p][1] = s[q][1] => p = q

Gone(s, P, base) ==
    {e \in DOMAIN base.edges : \E p \in P : s[p][2] = 0 /\ s[p][1] \in Ends[base.edges[e]]}

LEMMA StagedIs ==
    ASSUME NEW s, NEW P \in SUBSET DOMAIN s, \A p \in DOMAIN s : p \in Nat
    PROVE  LET A == Befores(Additions(Final(s, P)))
               R == Keys(Removals(Final(s, P)))
           IN  /\ A = [k \in DOMAIN A |-> A[k]]
               /\ \A k \in DOMAIN A : \E p \in P : s[p][1] = k /\ s[p][2] # 0 /\ A[k] = s[p][2]
               /\ \A k \in R : \E p \in P : s[p][1] = k /\ s[p][2] = 0
               /\ R \cap DOMAIN A = {}
               /\ Once(s) => \A p \in P : IF s[p][2] = 0 THEN s[p][1] \in R
                                          ELSE s[p][1] \in DOMAIN A /\ A[s[p][1]] = s[p][2]
<1> DEFINE F == Final(s, P)
           A == Befores(Additions(F))
           R == Keys(Removals(F))
<1>1. /\ OneEach(F) /\ \A c \in F : \E p \in P : c = s[p]
      /\ Once(s) => \A p \in P : s[p] \in F
  BY FinalIs DEF Once
<1> HIDE DEF F
<1>2. OneEach(Additions(F))
  BY <1>1 DEF OneEach, Additions
<1>3. /\ A = [k \in Keys(Additions(F)) |-> A[k]] /\ DOMAIN A = Keys(Additions(F))
      /\ \A c \in Additions(F) : c[1] \in Keys(Additions(F)) /\ A[c[1]] = c[2]
      /\ \A k \in Keys(Additions(F)) : \E c \in Additions(F) : c[1] = k /\ A[k] = c[2]
  BY <1>2, BeforesIs
<1> HIDE DEF A
<1>4. \A k \in DOMAIN A : \E p \in P : s[p][1] = k /\ s[p][2] # 0 /\ A[k] = s[p][2]
  BY <1>1, <1>3 DEF Additions
<1>5. \A k \in R : \E p \in P : s[p][1] = k /\ s[p][2] = 0
  BY <1>1 DEF Keys, Removals
<1>6. R \cap DOMAIN A = {}
  BY <1>1, <1>3 DEF Keys, Removals, Additions, OneEach
<1>7. ASSUME Once(s), NEW p \in P
      PROVE  IF s[p][2] = 0 THEN s[p][1] \in R ELSE s[p][1] \in DOMAIN A /\ A[s[p][1]] = s[p][2]
  BY <1>1, <1>3, <1>7 DEF Keys, Removals, Additions
<1> QED
  BY <1>3, <1>4, <1>5, <1>6, <1>7 DEF A, F

LEMMA ReversalShape ==
    ASSUME NEW ns, NEW es, NEW base
    PROVE  LET t == Reversal(ns, es, base)
           IN  /\ t.new = [k \in DOMAIN t.new |-> t.new[k]]
               /\ t.newEdges = [k \in DOMAIN t.newEdges |-> t.newEdges[k]]
<1>1. \A C : Befores(C) = [k \in DOMAIN Befores(C) |-> Befores(C)[k]]
  BY DEF Befores
<1> QED
  BY <1>1 DEF Reversal

LEMMA ReversalIs ==
    ASSUME NEW ns, NEW es, NEW base,
           \A p \in DOMAIN ns : p \in Nat, \A p \in DOMAIN es : p \in Nat
    PROVE  LET t == Reversal(ns, es, base)
               P == NodeCalls(ns, base.nodes)
               Q == EdgeCalls(es, base.edges)
           IN  /\ \A k \in DOMAIN t.new : \E p \in P : ns[p][1] = k /\ ns[p][2] # 0 /\ t.new[k] = ns[p][2]
               /\ \A k \in t.removed : \E p \in P : ns[p][1] = k /\ ns[p][2] = 0
               /\ t.removed \cap DOMAIN t.new = {}
               /\ Once(ns) => \A p \in P : IF ns[p][2] = 0 THEN ns[p][1] \in t.removed
                                           ELSE ns[p][1] \in DOMAIN t.new /\ t.new[ns[p][1]] = ns[p][2]
               /\ \A k \in DOMAIN t.newEdges :
                     \E p \in Q : es[p][1] = k /\ es[p][2] # 0 /\ t.newEdges[k] = es[p][2]
               /\ \A k \in t.removedEdges :
                     k \in Gone(ns, P, base) \/ \E p \in Q : es[p][1] = k /\ es[p][2] = 0
               /\ Gone(ns, P, base) \subseteq t.removedEdges \cup DOMAIN t.newEdges
               /\ t.removedEdges \cap DOMAIN t.newEdges = {}
               /\ Once(es) => \A p \in Q : IF es[p][2] = 0 THEN es[p][1] \in t.removedEdges
                                           ELSE es[p][1] \in DOMAIN t.newEdges /\ t.newEdges[es[p][1]] = es[p][2]
<1> DEFINE t == Reversal(ns, es, base)
           P == NodeCalls(ns, base.nodes)
           Q == EdgeCalls(es, base.edges)
           A == Befores(Additions(Final(ns, P)))
           R == Keys(Removals(Final(ns, P)))
           B == Befores(Additions(Final(es, Q)))
           S == Keys(Removals(Final(es, Q)))
           K == Keys(Removals({ns[p] : p \in P}))
           gone == UNION {At(base.edges, k) : k \in K}
<1>1. P \in SUBSET DOMAIN ns /\ Q \in SUBSET DOMAIN es
  BY DEF NodeCalls, EdgeCalls
<1>2. /\ A = [k \in DOMAIN A |-> A[k]]
      /\ \A k \in DOMAIN A : \E p \in P : ns[p][1] = k /\ ns[p][2] # 0 /\ A[k] = ns[p][2]
      /\ \A k \in R : \E p \in P : ns[p][1] = k /\ ns[p][2] = 0
      /\ R \cap DOMAIN A = {}
      /\ Once(ns) => \A p \in P : IF ns[p][2] = 0 THEN ns[p][1] \in R
                                  ELSE ns[p][1] \in DOMAIN A /\ A[ns[p][1]] = ns[p][2]
  <2> HIDE DEF P
  <2> QED
    BY <1>1, StagedIs
<1>3. /\ B = [k \in DOMAIN B |-> B[k]]
      /\ \A k \in DOMAIN B : \E p \in Q : es[p][1] = k /\ es[p][2] # 0 /\ B[k] = es[p][2]
      /\ \A k \in S : \E p \in Q : es[p][1] = k /\ es[p][2] = 0
      /\ S \cap DOMAIN B = {}
      /\ Once(es) => \A p \in Q : IF es[p][2] = 0 THEN es[p][1] \in S
                                  ELSE es[p][1] \in DOMAIN B /\ B[es[p][1]] = es[p][2]
  <2> HIDE DEF Q
  <2> QED
    BY <1>1, StagedIs
<1>4. gone = Gone(ns, P, base)
  <2> HIDE DEF P
  <2>1. \A k : k \in K <=> \E p \in P : ns[p][1] = k /\ ns[p][2] = 0
    BY DEF Keys, Removals
  <2>2. \A e : e \in gone <=> \E k \in K : e \in DOMAIN base.edges /\ k \in Ends[base.edges[e]]
    <3> HIDE DEF K
    <3> QED
      BY DEF At
  <2> HIDE DEF K, gone
  <2> QED
    BY <2>1, <2>2 DEF Gone
<1>5. DOMAIN B = Keys(Additions(Final(es, Q)))
  BY DEF Befores
<1>6. t = [new |-> A, removed |-> R, newEdges |-> B, removedEdges |-> (gone \cup S) \ DOMAIN B]
  <2>1. t = [new |-> A, removed |-> R, newEdges |-> B,
             removedEdges |-> (gone \cup S) \ Keys(Additions(Final(es, Q)))]
    BY DEF Reversal
  <2> HIDE DEF t, A, R, B, S, gone
  <2> QED
    BY <1>5, <2>1
<1> HIDE DEF t, P, Q, A, R, B, S, K, gone
<1>7. t.new = A /\ t.removed = R /\ t.newEdges = B /\ t.removedEdges = (gone \cup S) \ DOMAIN B
  BY <1>6
<1>8. /\ \A k \in (gone \cup S) \ DOMAIN B :
            k \in Gone(ns, P, base) \/ \E p \in Q : es[p][1] = k /\ es[p][2] = 0
      /\ Gone(ns, P, base) \subseteq ((gone \cup S) \ DOMAIN B) \cup DOMAIN B
      /\ ((gone \cup S) \ DOMAIN B) \cap DOMAIN B = {}
  BY <1>3, <1>4
<1>9. Once(es) => \A p \in Q : IF es[p][2] = 0 THEN es[p][1] \in (gone \cup S) \ DOMAIN B
                               ELSE es[p][1] \in DOMAIN B /\ B[es[p][1]] = es[p][2]
  BY <1>3
<1> QED
  BY <1>2, <1>3, <1>7, <1>8, <1>9 DEF t, P, Q

LEMMA HonestIs ==
    ASSUME NEW K, NEW V, 0 \notin V, NEW a \in Tree(K, V), NEW b \in Tree(K, V),
           NEW s, HonestDiff(s, a, b), NEW p \in DOMAIN s
    PROVE  /\ p \in Nat /\ s[p][1] \in K /\ s[p][1] \in DOMAIN a \cup DOMAIN b
           /\ s[p][2] # 0 => s[p][1] \in DOMAIN a /\ s[p][2] = a[s[p][1]] /\ s[p][2] \in V
           /\ s[p][3] # 0 => s[p][1] \in DOMAIN b /\ s[p][3] = b[s[p][1]]
<1>1. DOMAIN a \subseteq K /\ DOMAIN b \subseteq K /\ \A k \in DOMAIN a : a[k] \in V
  BY TreeIs
<1> QED
  BY <1>1 DEF HonestDiff, BlockAt

LEMMA ExactIs ==
    ASSUME NEW K, NEW V, 0 \notin V, NEW a \in Tree(K, V), NEW b \in Tree(K, V),
           NEW s, HonestDiff(s, a, b), ExactDiff(s, a, b)
    PROVE  /\ Once(s)
           /\ \A k : ~ Same(a, b, k) <=> \E p \in DOMAIN s : s[p][1] = k
           /\ \A p \in DOMAIN s :
                 /\ s[p][2] = 0 <=> s[p][1] \notin DOMAIN a
                 /\ s[p][3] = 0 <=> s[p][1] \notin DOMAIN b
                 /\ s[p][1] \in DOMAIN a => s[p][2] = a[s[p][1]]
                 /\ s[p][1] \in DOMAIN b => s[p][3] = b[s[p][1]]
<1>1. /\ \A k \in DOMAIN a : a[k] # 0
      /\ \A k \in DOMAIN b : b[k] # 0
  BY TreeIs
<1>2. Once(s)
  BY DEF Once, HonestDiff, ExactDiff
<1>3. \A k : Same(a, b, k) <=> BlockAt(a, k) = BlockAt(b, k)
  BY <1>1 DEF Same, BlockAt
<1>4. ASSUME NEW k PROVE ~ Same(a, b, k) <=> \E p \in DOMAIN s : s[p][1] = k
  <2>1. CASE k \in DOMAIN a \cup DOMAIN b
    BY <1>3, <2>1 DEF ExactDiff
  <2>2. CASE k \notin DOMAIN a \cup DOMAIN b
    BY <2>2 DEF Same, HonestDiff
  <2> QED
    BY <2>1, <2>2
<1>5. \A p \in DOMAIN s :
         /\ s[p][2] = 0 <=> s[p][1] \notin DOMAIN a
         /\ s[p][3] = 0 <=> s[p][1] \notin DOMAIN b
         /\ s[p][1] \in DOMAIN a => s[p][2] = a[s[p][1]]
         /\ s[p][1] \in DOMAIN b => s[p][3] = b[s[p][1]]
  BY <1>1 DEF ExactDiff, BlockAt
<1> QED
  BY <1>2, <1>4, <1>5

\* The diffs that a revert of version b, made on a, starts from.
Diffs(ns, es, a, b) == HonestDiff(ns, a.nodes, b.nodes) /\ HonestDiff(es, a.edges, b.edges)

ExactDiffs(ns, es, a, b) == ExactDiff(ns, a.nodes, b.nodes) /\ ExactDiff(es, a.edges, b.edges)

LEMMA ReversalTypes ==
    ASSUME NEW a \in LogVersion, NEW b \in LogVersion, NEW base \in LogVersion, NEW ns, NEW es,
           Diffs(ns, es, a, b), NEW tombs \in SUBSET Key, NEW i \in Nat
    PROVE  Stored(base, Reversal(ns, es, base), tombs, i) \in LogVersion
<1> DEFINE t == Reversal(ns, es, base)
           w == Stored(base, t, tombs, i)
<1>1. /\ a.nodes \in Tree(Key, Value) /\ b.nodes \in Tree(Key, Value) /\ base.nodes \in Tree(Key, Value)
      /\ a.edges \in Tree(EdgeKey, EdgeBlock) /\ b.edges \in Tree(EdgeKey, EdgeBlock)
      /\ base.edges \in Tree(EdgeKey, EdgeBlock)
  BY DEF LogVersion
<1>2. /\ \A p \in DOMAIN ns : p \in Nat /\ (ns[p][2] # 0 => ns[p][1] \in Key /\ ns[p][2] \in Value)
      /\ \A p \in DOMAIN es : p \in Nat /\ (es[p][2] # 0 => es[p][1] \in EdgeKey /\ es[p][2] \in EdgeBlock)
  BY <1>1, HonestIs, BlockAssumption DEF Diffs
<1>3. /\ t.new = [k \in DOMAIN t.new |-> t.new[k]]
      /\ \A k \in DOMAIN t.new : \E p \in DOMAIN ns : ns[p][1] = k /\ ns[p][2] # 0 /\ t.new[k] = ns[p][2]
      /\ t.newEdges = [k \in DOMAIN t.newEdges |-> t.newEdges[k]]
      /\ \A k \in DOMAIN t.newEdges :
            \E p \in DOMAIN es : es[p][1] = k /\ es[p][2] # 0 /\ t.newEdges[k] = es[p][2]
  <2>1. NodeCalls(ns, base.nodes) \subseteq DOMAIN ns /\ EdgeCalls(es, base.edges) \subseteq DOMAIN es
    BY DEF NodeCalls, EdgeCalls
  <2> HIDE DEF t
  <2> QED
    BY <1>2, <2>1, ReversalIs, ReversalShape DEF t
<1> HIDE DEF t
<1>4. /\ DOMAIN t.new \subseteq Key /\ \A k \in DOMAIN t.new : t.new[k] \in Value
      /\ DOMAIN t.newEdges \subseteq EdgeKey /\ \A k \in DOMAIN t.newEdges : t.newEdges[k] \in EdgeBlock
  BY <1>2, <1>3
<1>5. t.new \in Tree(Key, Value) /\ t.newEdges \in Tree(EdgeKey, EdgeBlock)
  BY <1>3, <1>4, TreeIs
<1>6. w.nodes \in Tree(Key, Value) /\ w.edges \in Tree(EdgeKey, EdgeBlock)
  BY <1>1, <1>5, RebuildTree DEF Stored
<1>7. w = [nodes |-> w.nodes, edges |-> w.edges, tombs |-> tombs, reverts |-> i]
  BY DEF Stored
<1> HIDE DEF w
<1>8. w \in LogVersion
  BY <1>6, <1>7 DEF LogVersion
<1> QED
  BY <1>8 DEF t, w

(***************************************************************************)
(* A removed node takes its edges with it, and the edges that are added    *)
(* again are checked: none is left without an end.                         *)
(***************************************************************************)
LEMMA ReversalEnds ==
    ASSUME NEW base, NEW ns, NEW es, NEW tombs, NEW i,
           \A p \in DOMAIN ns : p \in Nat, \A p \in DOMAIN es : p \in Nat,
           EndsIn(base.edges, DOMAIN base.nodes), Checked(base, Reversal(ns, es, base))
    PROVE  LET w == Stored(base, Reversal(ns, es, base), tombs, i)
           IN  EndsIn(w.edges, DOMAIN w.nodes)
<1> DEFINE t == Reversal(ns, es, base)
           P == NodeCalls(ns, base.nodes)
           w == Stored(base, t, tombs, i)
<1>1. /\ \A k \in t.removed : \E p \in P : ns[p][1] = k /\ ns[p][2] = 0
      /\ Gone(ns, P, base) \subseteq t.removedEdges \cup DOMAIN t.newEdges
  BY ReversalIs
<1>2. /\ w.nodes = Rebuild(base.nodes, t.new, t.removed)
      /\ w.edges = Rebuild(base.edges, t.newEdges, t.removedEdges)
  BY DEF Stored
<1> HIDE DEF t, P, w
<1>3. /\ DOMAIN w.nodes = (DOMAIN base.nodes \ t.removed) \cup DOMAIN t.new
      /\ DOMAIN w.edges = (DOMAIN base.edges \ t.removedEdges) \cup DOMAIN t.newEdges
      /\ \A e \in DOMAIN t.newEdges : w.edges[e] = t.newEdges[e]
      /\ \A e \in DOMAIN base.edges \ t.removedEdges : e \notin DOMAIN t.newEdges => w.edges[e] = base.edges[e]
  BY <1>2 DEF Rebuild
<1>4. ASSUME NEW e \in DOMAIN w.edges PROVE Ends[w.edges[e]] \subseteq DOMAIN w.nodes
  <2>1. CASE e \in DOMAIN t.newEdges
    <3>1. Ends[t.newEdges[e]] \subseteq (DOMAIN base.nodes \cup DOMAIN t.new) \ t.removed
      BY <2>1 DEF Checked, EndsIn, t
    <3> QED
      BY <1>3, <2>1, <3>1
  <2>2. CASE e \notin DOMAIN t.newEdges
    <3>1. e \in DOMAIN base.edges /\ w.edges[e] = base.edges[e] /\ e \notin Gone(ns, P, base)
      BY <1>1, <1>3, <2>2
    <3>2. Ends[base.edges[e]] \cap t.removed = {}
      BY <1>1, <3>1 DEF Gone
    <3>3. Ends[base.edges[e]] \subseteq DOMAIN base.nodes
      BY <3>1 DEF EndsIn
    <3> QED
      BY <1>3, <3>1, <3>2, <3>3
  <2> QED
    BY <2>1, <2>2
<1>5. EndsIn(w.edges, DOMAIN w.nodes)
  BY <1>4 DEF EndsIn
<1> QED
  BY <1>5 DEF w, t

\* An edge that is there again, and not in the version reverted, was one that this version removed.
LEMMA ReversalRevives ==
    ASSUME NEW a \in LogVersion, NEW b \in LogVersion, NEW base, NEW ns, NEW es, NEW tombs, NEW i,
           Diffs(ns, es, a, b), EndsAlive(es, base),
           NEW e \in DOMAIN Stored(base, Reversal(ns, es, base), tombs, i).edges,
           e \notin DOMAIN base.edges, e \notin DOMAIN b.edges
    PROVE  Ends[Stored(base, Reversal(ns, es, base), tombs, i).edges[e]] \cap base.tombs = {}
<1> DEFINE t == Reversal(ns, es, base)
           Q == EdgeCalls(es, base.edges)
           w == Stored(base, t, tombs, i)
<1>1. a.edges \in Tree(EdgeKey, EdgeBlock) /\ b.edges \in Tree(EdgeKey, EdgeBlock)
  BY DEF LogVersion
<1>2. /\ \A p \in DOMAIN ns : p \in Nat
      /\ \A p \in DOMAIN es : p \in Nat /\ (es[p][3] # 0 => es[p][1] \in DOMAIN b.edges)
  BY <1>1, HonestIs, BlockAssumption DEF Diffs, HonestDiff
<1>3. \A k \in DOMAIN t.newEdges :
         \E p \in Q : es[p][1] = k /\ es[p][2] # 0 /\ t.newEdges[k] = es[p][2]
  BY <1>2, ReversalIs
<1>4. Q \subseteq DOMAIN es
  BY DEF EdgeCalls
<1>5. w.edges = Rebuild(base.edges, t.newEdges, t.removedEdges)
  BY DEF Stored
<1>6. e \in DOMAIN w.edges
  OBVIOUS
<1> HIDE DEF t, Q, w
<1>7. e \in DOMAIN t.newEdges /\ w.edges[e] = t.newEdges[e]
  BY <1>5, <1>6 DEF Rebuild
<1>8. PICK p \in DOMAIN es : es[p][1] = e /\ w.edges[e] = es[p][2]
  BY <1>3, <1>4, <1>7
<1>9. es[p][3] = 0
  BY <1>2, <1>8
<1>10. Ends[w.edges[e]] \cap base.tombs = {}
  BY <1>8, <1>9 DEF EndsAlive
<1> QED
  BY <1>10 DEF w, t

\* What the version did not change stays, but for the edges of nodes that go.
LEMMA ReversalKeeps ==
    ASSUME NEW a \in LogVersion, NEW b \in LogVersion, NEW base \in LogVersion, NEW ns, NEW es,
           Diffs(ns, es, a, b), ExactDiffs(ns, es, a, b), NEW tombs, NEW i
    PROVE  LET w == Stored(base, Reversal(ns, es, base), tombs, i)
           IN  /\ \A n : Same(a.nodes, b.nodes, n) => Same(base.nodes, w.nodes, n)
               /\ \A e \in DOMAIN base.edges :
                     Same(a.edges, b.edges, e) /\ Ends[base.edges[e]] \subseteq DOMAIN w.nodes
                        => Same(base.edges, w.edges, e)
<1> DEFINE t == Reversal(ns, es, base)
           P == NodeCalls(ns, base.nodes)
           Q == EdgeCalls(es, base.edges)
           w == Stored(base, t, tombs, i)
<1>1. /\ a.nodes \in Tree(Key, Value) /\ b.nodes \in Tree(Key, Value)
      /\ a.edges \in Tree(EdgeKey, EdgeBlock) /\ b.edges \in Tree(EdgeKey, EdgeBlock)
  BY DEF LogVersion
<1>2. /\ Once(ns) /\ \A k : ~ Same(a.nodes, b.nodes, k) <=> \E p \in DOMAIN ns : ns[p][1] = k
      /\ Once(es) /\ \A k : ~ Same(a.edges, b.edges, k) <=> \E p \in DOMAIN es : es[p][1] = k
  BY <1>1, ExactIs, BlockAssumption DEF Diffs, ExactDiffs
<1>3. P \subseteq DOMAIN ns /\ Q \subseteq DOMAIN es
  BY DEF NodeCalls, EdgeCalls
<1>4. /\ \A k \in DOMAIN t.new : \E p \in P : ns[p][1] = k
      /\ \A k \in t.removed : \E p \in P : ns[p][1] = k
      /\ t.removed \cap DOMAIN t.new = {}
      /\ \A p \in P : ns[p][2] = 0 => ns[p][1] \in t.removed
      /\ \A k \in DOMAIN t.newEdges : \E p \in Q : es[p][1] = k
      /\ \A k \in t.removedEdges : k \in Gone(ns, P, base) \/ \E p \in Q : es[p][1] = k
  <2>1. (\A p \in DOMAIN ns : p \in Nat) /\ \A p \in DOMAIN es : p \in Nat
    BY <1>2 DEF Once
  <2> QED
    BY <1>2, <2>1, ReversalIs
<1>5. /\ w.nodes = Rebuild(base.nodes, t.new, t.removed)
      /\ w.edges = Rebuild(base.edges, t.newEdges, t.removedEdges)
  BY DEF Stored
<1> HIDE DEF t, P, Q, w
<1>6. ASSUME NEW n, Same(a.nodes, b.nodes, n) PROVE Same(base.nodes, w.nodes, n)
  <2>1. n \notin DOMAIN t.new /\ n \notin t.removed
    BY <1>2, <1>3, <1>4, <1>6
  <2> QED
    BY <1>5, <2>1 DEF Rebuild, Same
<1>7. ASSUME NEW e \in DOMAIN base.edges, Same(a.edges, b.edges, e),
             Ends[base.edges[e]] \subseteq DOMAIN w.nodes
      PROVE  Same(base.edges, w.edges, e)
  <2>1. \A p \in Q : es[p][1] # e
    BY <1>2, <1>3, <1>7
  <2>2. e \notin Gone(ns, P, base)
    <3>1. t.removed \cap DOMAIN w.nodes = {}
      BY <1>4, <1>5 DEF Rebuild
    <3> QED
      BY <1>4, <1>7, <3>1 DEF Gone
  <2>3. e \notin DOMAIN t.newEdges /\ e \notin t.removedEdges
    BY <1>4, <2>1, <2>2
  <2> QED
    BY <1>5, <2>3 DEF Rebuild, Same
<1> QED
  BY <1>6, <1>7 DEF w, t

LEMMA SameTree ==
    ASSUME NEW K, NEW V, NEW t \in Tree(K, V), NEW u \in Tree(K, V), \A k : Same(t, u, k)
    PROVE  t = u
<1>1. t = [k \in DOMAIN t |-> t[k]] /\ u = [k \in DOMAIN u |-> u[k]]
  BY TreeIs
<1>2. DOMAIN t = DOMAIN u /\ \A k \in DOMAIN t : t[k] = u[k]
  BY DEF Same
<1> QED
  BY <1>1, <1>2

(***************************************************************************)
(* On the version itself, every change leads to a call, and what comes out *)
(* is the version before.                                                  *)
(***************************************************************************)
LEMMA ReversalUndoes ==
    ASSUME NEW a \in LogVersion, NEW b \in LogVersion, NEW ns, NEW es,
           Diffs(ns, es, a, b), ExactDiffs(ns, es, a, b), EndsIn(a.edges, DOMAIN a.nodes),
           NEW tombs \in SUBSET Key, NEW i \in Nat
    PROVE  LET w == Stored(b, Reversal(ns, es, b), tombs, i)
           IN  w.nodes = a.nodes /\ w.edges = a.edges
<1> DEFINE t == Reversal(ns, es, b)
           P == NodeCalls(ns, b.nodes)
           Q == EdgeCalls(es, b.edges)
           w == Stored(b, t, tombs, i)
<1>1. /\ a.nodes \in Tree(Key, Value) /\ b.nodes \in Tree(Key, Value)
      /\ a.edges \in Tree(EdgeKey, EdgeBlock) /\ b.edges \in Tree(EdgeKey, EdgeBlock)
  BY DEF LogVersion
<1>2. /\ Once(ns) /\ \A k : ~ Same(a.nodes, b.nodes, k) <=> \E p \in DOMAIN ns : ns[p][1] = k
      /\ \A p \in DOMAIN ns : /\ ns[p][2] = 0 <=> ns[p][1] \notin DOMAIN a.nodes
                              /\ ns[p][3] = 0 <=> ns[p][1] \notin DOMAIN b.nodes
                              /\ ns[p][1] \in DOMAIN a.nodes => ns[p][2] = a.nodes[ns[p][1]]
  BY <1>1, ExactIs, BlockAssumption DEF Diffs, ExactDiffs
<1>3. /\ Once(es) /\ \A k : ~ Same(a.edges, b.edges, k) <=> \E p \in DOMAIN es : es[p][1] = k
      /\ \A p \in DOMAIN es : /\ es[p][2] = 0 <=> es[p][1] \notin DOMAIN a.edges
                              /\ es[p][3] = 0 <=> es[p][1] \notin DOMAIN b.edges
                              /\ es[p][1] \in DOMAIN a.edges => es[p][2] = a.edges[es[p][1]]
  BY <1>1, ExactIs, BlockAssumption DEF Diffs, ExactDiffs
<1>4. P = DOMAIN ns
  <2>1. ASSUME NEW p \in DOMAIN ns PROVE NodeDue(ns[p], b.nodes)
    <3>1. ~ Same(a.nodes, b.nodes, ns[p][1])
      BY <1>2
    <3> QED
      BY <1>2, <3>1 DEF NodeDue, Same
  <2> QED
    BY <2>1 DEF NodeCalls
<1>5. Q = DOMAIN es
  <2>1. ASSUME NEW p \in DOMAIN es PROVE EdgeDue(es[p], b.edges)
    <3>1. ~ Same(a.edges, b.edges, es[p][1])
      BY <1>3
    <3> QED
      BY <1>3, <3>1 DEF EdgeDue, Same
  <2> QED
    BY <2>1 DEF EdgeCalls
<1> HIDE DEF P, Q
<1>6. /\ \A k \in DOMAIN t.new : \E p \in P : ns[p][1] = k
      /\ \A k \in t.removed : \E p \in P : ns[p][1] = k
      /\ t.removed \cap DOMAIN t.new = {}
      /\ \A p \in P : IF ns[p][2] = 0 THEN ns[p][1] \in t.removed
                      ELSE ns[p][1] \in DOMAIN t.new /\ t.new[ns[p][1]] = ns[p][2]
      /\ \A k \in DOMAIN t.newEdges : \E p \in Q : es[p][1] = k
      /\ \A k \in t.removedEdges : k \in Gone(ns, P, b) \/ \E p \in Q : es[p][1] = k
      /\ t.removedEdges \cap DOMAIN t.newEdges = {}
      /\ \A p \in Q : IF es[p][2] = 0 THEN es[p][1] \in t.removedEdges
                      ELSE es[p][1] \in DOMAIN t.newEdges /\ t.newEdges[es[p][1]] = es[p][2]
  <2>1. (\A p \in DOMAIN ns : p \in Nat) /\ \A p \in DOMAIN es : p \in Nat
    BY <1>2, <1>3 DEF Once
  <2> QED
    BY <1>2, <1>3, <2>1, ReversalIs DEF P, Q
<1>7. /\ w.nodes = Rebuild(b.nodes, t.new, t.removed)
      /\ w.edges = Rebuild(b.edges, t.newEdges, t.removedEdges)
  BY DEF Stored
<1>8. w \in LogVersion
  BY ReversalTypes
<1> HIDE DEF t, w
<1>9. ASSUME NEW k PROVE Same(w.nodes, a.nodes, k)
  <2>1. CASE Same(a.nodes, b.nodes, k)
    <3>1. k \notin DOMAIN t.new /\ k \notin t.removed
      BY <1>2, <1>4, <1>6, <2>1
    <3> QED
      BY <1>7, <2>1, <3>1 DEF Rebuild, Same
  <2>2. CASE ~ Same(a.nodes, b.nodes, k)
    <3>1. PICK p \in P : ns[p][1] = k
      BY <1>2, <1>4, <2>2
    <3>2. CASE k \in DOMAIN a.nodes
      <4>1. k \in DOMAIN t.new /\ t.new[k] = a.nodes[k]
        BY <1>2, <1>4, <1>6, <3>1, <3>2
      <4> QED
        BY <1>7, <3>2, <4>1 DEF Rebuild, Same
    <3>3. CASE k \notin DOMAIN a.nodes
      <4>1. k \in t.removed /\ k \notin DOMAIN t.new
        BY <1>2, <1>4, <1>6, <3>1, <3>3
      <4> QED
        BY <1>7, <3>3, <4>1 DEF Rebuild, Same
    <3> QED
      BY <3>2, <3>3
  <2> QED
    BY <2>1, <2>2
<1>10. ASSUME NEW k PROVE Same(w.edges, a.edges, k)
  <2>1. CASE Same(a.edges, b.edges, k)
    <3>1. k \notin Gone(ns, P, b)
      <4> SUFFICES ASSUME k \in DOMAIN b.edges, NEW p \in P, ns[p][2] = 0,
                          ns[p][1] \in Ends[b.edges[k]]
                   PROVE  FALSE
        BY DEF Gone
      <4>1. ns[p][1] \notin DOMAIN a.nodes
        BY <1>2, <1>4
      <4>2. k \in DOMAIN a.edges /\ a.edges[k] = b.edges[k]
        BY <2>1 DEF Same
      <4> QED
        BY <4>1, <4>2 DEF EndsIn
    <3>2. k \notin DOMAIN t.newEdges /\ k \notin t.removedEdges
      BY <1>3, <1>5, <1>6, <2>1, <3>1
    <3> QED
      BY <1>7, <2>1, <3>2 DEF Rebuild, Same
  <2>2. CASE ~ Same(a.edges, b.edges, k)
    <3>1. PICK p \in Q : es[p][1] = k
      BY <1>3, <1>5, <2>2
    <3>2. CASE k \in DOMAIN a.edges
      <4>1. k \in DOMAIN t.newEdges /\ t.newEdges[k] = a.edges[k]
        BY <1>3, <1>5, <1>6, <3>1, <3>2
      <4> QED
        BY <1>7, <3>2, <4>1 DEF Rebuild, Same
    <3>3. CASE k \notin DOMAIN a.edges
      <4>1. k \in t.removedEdges /\ k \notin DOMAIN t.newEdges
        BY <1>3, <1>5, <1>6, <3>1, <3>3
      <4> QED
        BY <1>7, <3>3, <4>1 DEF Rebuild, Same
    <3> QED
      BY <3>2, <3>3
  <2> QED
    BY <2>1, <2>2
<1>11. w.nodes \in Tree(Key, Value) /\ w.edges \in Tree(EdgeKey, EdgeBlock)
  BY <1>8 DEF LogVersion
<1>12. w.nodes = a.nodes /\ w.edges = a.edges
  BY <1>1, <1>9, <1>10, <1>11, SameTree
<1> QED
  BY <1>12 DEF w, t

\* Where the nodes and edges are those of the version before, no change leads to a call.
LEMMA NothingDue ==
    ASSUME NEW a \in LogVersion, NEW b \in LogVersion, NEW ns, NEW es,
           Diffs(ns, es, a, b), ExactDiffs(ns, es, a, b)
    PROVE  NodeCalls(ns, a.nodes) = {} /\ EdgeCalls(es, a.edges) = {}
<1>1. /\ a.nodes \in Tree(Key, Value) /\ b.nodes \in Tree(Key, Value)
      /\ a.edges \in Tree(EdgeKey, EdgeBlock) /\ b.edges \in Tree(EdgeKey, EdgeBlock)
  BY DEF LogVersion
<1>2. \A p \in DOMAIN ns : /\ ns[p][2] = 0 <=> ns[p][1] \notin DOMAIN a.nodes
                           /\ ns[p][1] \in DOMAIN a.nodes => ns[p][2] = a.nodes[ns[p][1]]
  BY <1>1, ExactIs, BlockAssumption DEF Diffs, ExactDiffs
<1>3. \A p \in DOMAIN es : /\ es[p][2] = 0 <=> es[p][1] \notin DOMAIN a.edges
                           /\ es[p][1] \in DOMAIN a.edges => es[p][2] = a.edges[es[p][1]]
  BY <1>1, ExactIs, BlockAssumption DEF Diffs, ExactDiffs
<1> QED
  BY <1>2, <1>3 DEF NodeCalls, EdgeCalls, NodeDue, EdgeDue

\* A call of a transaction leaves no edge without an end.
Whole(v) == v \in LogVersion /\ EndsIn(v.edges, DOMAIN v.nodes)

LEMMA EmptyIs ==
    /\ EmptyTree \in Tree(Key, Value) /\ EmptyTree \in Tree(EdgeKey, EdgeBlock)
    /\ DOMAIN EmptyTree = {} /\ Whole(Empty) /\ Empty.reverts = 0
<1>1. EmptyTree \in Tree(Key, Value) /\ EmptyTree \in Tree(EdgeKey, EdgeBlock) /\ DOMAIN EmptyTree = {}
  BY NoKeys DEF EmptyTree
<1>2. Empty \in LogVersion
  BY <1>1 DEF Empty, LogVersion
<1> QED
  BY <1>1, <1>2 DEF Whole, Empty, EndsIn

LEMMA StoredWhole ==
    ASSUME NEW b, Whole(b), NEW t,
           t.new \in Tree(Key, Value), t.newEdges \in Tree(EdgeKey, EdgeBlock),
           EndsIn(t.newEdges, (DOMAIN b.nodes \ t.removed) \cup DOMAIN t.new),
           \A n \in t.removed : At(b.edges, n) \subseteq t.removedEdges
    PROVE  Whole(Stored(b, t, b.tombs, 0)) /\ Stored(b, t, b.tombs, 0).reverts = 0
<1> DEFINE w == Stored(b, t, b.tombs, 0)
<1>1. /\ b.nodes \in Tree(Key, Value) /\ b.edges \in Tree(EdgeKey, EdgeBlock) /\ b.tombs \in SUBSET Key
      /\ \A e \in DOMAIN b.edges : Ends[b.edges[e]] \subseteq DOMAIN b.nodes
  BY DEF Whole, LogVersion, EndsIn
<1>2. /\ w = [nodes |-> w.nodes, edges |-> w.edges, tombs |-> b.tombs, reverts |-> 0] /\ w.reverts = 0
      /\ w.nodes = Rebuild(b.nodes, t.new, t.removed)
      /\ w.edges = Rebuild(b.edges, t.newEdges, t.removedEdges)
  BY DEF Stored
<1> HIDE DEF w
<1>3. w.nodes \in Tree(Key, Value) /\ w.edges \in Tree(EdgeKey, EdgeBlock)
  BY <1>1, <1>2, RebuildTree
<1>4. w \in LogVersion
  BY <1>1, <1>2, <1>3 DEF LogVersion
<1>5. ASSUME NEW e \in DOMAIN w.edges PROVE Ends[w.edges[e]] \subseteq DOMAIN w.nodes
  <2>1. DOMAIN w.nodes = (DOMAIN b.nodes \ t.removed) \cup DOMAIN t.new
    BY <1>2 DEF Rebuild
  <2>2. CASE e \in DOMAIN t.newEdges
    <3>1. w.edges[e] = t.newEdges[e]
      BY <1>2, <2>2 DEF Rebuild
    <3> QED
      BY <2>1, <2>2, <3>1 DEF EndsIn
  <2>3. CASE e \notin DOMAIN t.newEdges
    <3>1. e \in DOMAIN b.edges /\ e \notin t.removedEdges /\ w.edges[e] = b.edges[e]
      BY <1>2, <2>3 DEF Rebuild
    <3>2. Ends[b.edges[e]] \cap t.removed = {}
      BY <3>1 DEF At
    <3> QED
      BY <1>1, <2>1, <3>1, <3>2
  <2> QED
    BY <2>2, <2>3
<1>6. Whole(w)
  BY <1>4, <1>5 DEF Whole, EndsIn
<1> QED
  BY <1>2, <1>6 DEF w

LEMMA CalledWhole ==
    ASSUME NEW b, Whole(b), NEW c \in Called(b)
    PROVE  Whole(c) /\ c.reverts = 0
<1>0. /\ b.nodes \in Tree(Key, Value) /\ b.edges \in Tree(EdgeKey, EdgeBlock)
      /\ DOMAIN b.nodes \subseteq Key /\ b.tombs \in SUBSET Key
  BY TreeIs DEF Whole, LogVersion
<1>e. /\ EmptyTree \in Tree(Key, Value) /\ EmptyTree \in Tree(EdgeKey, EdgeBlock)
      /\ DOMAIN EmptyTree = {}
  BY EmptyIs
<1>r. \A r : Rebuild(EmptyTree, EmptyTree, r) = EmptyTree
  BY DEF Rebuild, EmptyTree
<1>1. ASSUME NEW n \in Key, NEW v \in Value, c = Stored(b, WithNode(NothingStaged, n, v), b.tombs, 0)
      PROVE  Whole(c) /\ c.reverts = 0
  <2> DEFINE t == WithNode(NothingStaged, n, v)
             one == [k \in {n} |-> v]
  <2>1. /\ t.new = Rebuild(EmptyTree, one, {}) /\ t.removed = {}
        /\ t.newEdges = EmptyTree /\ t.removedEdges = {}
    BY DEF WithNode, NothingStaged
  <2>2. one \in Tree(Key, Value)
    BY OneKey
  <2> HIDE DEF t, one
  <2>3. t.new \in Tree(Key, Value)
    BY <1>e, <2>1, <2>2, RebuildTree
  <2>4. EndsIn(t.newEdges, (DOMAIN b.nodes \ t.removed) \cup DOMAIN t.new)
    BY <1>e, <2>1 DEF EndsIn
  <2>5. Whole(Stored(b, t, b.tombs, 0)) /\ Stored(b, t, b.tombs, 0).reverts = 0
    BY <1>e, <2>1, <2>3, <2>4, StoredWhole
  <2> QED
    BY <1>1, <2>5 DEF t
<1>2. ASSUME NEW n \in DOMAIN b.nodes, c = Stored(b, WithoutNode(NothingStaged, n, b), b.tombs, 0)
      PROVE  Whole(c) /\ c.reverts = 0
  <2> DEFINE t == WithoutNode(NothingStaged, n, b)
  <2>1. /\ t.new = EmptyTree /\ t.removed = {n}
        /\ t.newEdges = EmptyTree /\ At(b.edges, n) \subseteq t.removedEdges
    BY <1>r DEF WithoutNode, NothingStaged
  <2> HIDE DEF t
  <2>2. EndsIn(t.newEdges, (DOMAIN b.nodes \ t.removed) \cup DOMAIN t.new)
    BY <1>e, <2>1 DEF EndsIn
  <2>3. Whole(Stored(b, t, b.tombs, 0)) /\ Stored(b, t, b.tombs, 0).reverts = 0
    BY <1>e, <2>1, <2>2, StoredWhole
  <2> QED
    BY <1>2, <2>3 DEF t
<1>3. ASSUME NEW e \in DOMAIN b.edges, c = Stored(b, WithoutEdge(NothingStaged, e), b.tombs, 0)
      PROVE  Whole(c) /\ c.reverts = 0
  <2> DEFINE t == WithoutEdge(NothingStaged, e)
  <2>1. t.new = EmptyTree /\ t.removed = {} /\ t.newEdges = EmptyTree
    BY <1>r DEF WithoutEdge, NothingStaged
  <2> HIDE DEF t
  <2>2. EndsIn(t.newEdges, (DOMAIN b.nodes \ t.removed) \cup DOMAIN t.new)
    BY <1>e, <2>1 DEF EndsIn
  <2>3. Whole(Stored(b, t, b.tombs, 0)) /\ Stored(b, t, b.tombs, 0).reverts = 0
    BY <1>e, <2>1, <2>2, StoredWhole
  <2> QED
    BY <1>3, <2>3 DEF t
<1>4. ASSUME NEW n \in DOMAIN b.nodes, c = [b EXCEPT !.tombs = @ \cup {n}, !.reverts = 0]
      PROVE  Whole(c) /\ c.reverts = 0
  <2>1. b \in LogVersion /\ EndsIn(b.edges, DOMAIN b.nodes)
    BY DEF Whole
  <2>2. c.edges = b.edges /\ c.nodes = b.nodes /\ c.reverts = 0 /\ c \in LogVersion
    BY <1>0, <1>4, <2>1 DEF LogVersion
  <2> QED
    BY <2>1, <2>2 DEF Whole
<1>5. ASSUME NEW e \in EdgeKey, NEW x \in EdgeBlock, Ends[x] \subseteq DOMAIN b.nodes,
             c = Stored(b, WithEdge(NothingStaged, e, x), b.tombs, 0)
      PROVE  Whole(c) /\ c.reverts = 0
  <2> DEFINE t == WithEdge(NothingStaged, e, x)
             one == [k \in {e} |-> x]
  <2>1. /\ t.new = EmptyTree /\ t.removed = {} /\ t.newEdges = Rebuild(EmptyTree, one, {})
    BY DEF WithEdge, NothingStaged
  <2>2. one \in Tree(EdgeKey, EdgeBlock) /\ DOMAIN one = {e} /\ one[e] = x
    BY OneKey
  <2> HIDE DEF t, one
  <2>3. t.newEdges \in Tree(EdgeKey, EdgeBlock)
    BY <1>e, <2>1, <2>2, RebuildTree
  <2>4. DOMAIN t.newEdges = {e} /\ t.newEdges[e] = x
    BY <1>e, <2>1, <2>2 DEF Rebuild
  <2>5. EndsIn(t.newEdges, (DOMAIN b.nodes \ t.removed) \cup DOMAIN t.new)
    BY <1>5, <2>1, <2>4 DEF EndsIn
  <2>6. Whole(Stored(b, t, b.tombs, 0)) /\ Stored(b, t, b.tombs, 0).reverts = 0
    BY <1>e, <2>1, <2>3, <2>5, StoredWhole
  <2> QED
    BY <1>5, <2>6 DEF t
<1>6. \/ \E n \in Key, v \in Value : c = Stored(b, WithNode(NothingStaged, n, v), b.tombs, 0)
      \/ \E n \in DOMAIN b.nodes : c = Stored(b, WithoutNode(NothingStaged, n, b), b.tombs, 0)
      \/ \E e \in DOMAIN b.edges : c = Stored(b, WithoutEdge(NothingStaged, e), b.tombs, 0)
      \/ \E n \in DOMAIN b.nodes : c = [b EXCEPT !.tombs = @ \cup {n}, !.reverts = 0]
      \/ \E e \in EdgeKey, x \in EdgeBlock :
            Ends[x] \subseteq DOMAIN b.nodes /\ c = Stored(b, WithEdge(NothingStaged, e, x), b.tombs, 0)
  <2> DEFINE A == (UNION {{Stored(b, WithNode(NothingStaged, n, v), b.tombs, 0) : v \in Value} : n \in Key})
             B == {Stored(b, WithoutNode(NothingStaged, n, b), b.tombs, 0) : n \in DOMAIN b.nodes}
             C == {Stored(b, WithoutEdge(NothingStaged, e), b.tombs, 0) : e \in DOMAIN b.edges}
             D == {[b EXCEPT !.tombs = @ \cup {n}, !.reverts = 0] : n \in DOMAIN b.nodes}
             E == UNION {{Stored(b, WithEdge(NothingStaged, e, x), b.tombs, 0) :
                            x \in {y \in EdgeBlock : Ends[y] \subseteq DOMAIN b.nodes}} : e \in EdgeKey}
  <2>1. c \in A => \E n \in Key, v \in Value : c = Stored(b, WithNode(NothingStaged, n, v), b.tombs, 0)
    OBVIOUS
  <2>2. c \in B => \E n \in DOMAIN b.nodes : c = Stored(b, WithoutNode(NothingStaged, n, b), b.tombs, 0)
    OBVIOUS
  <2>3. c \in C => \E e \in DOMAIN b.edges : c = Stored(b, WithoutEdge(NothingStaged, e), b.tombs, 0)
    OBVIOUS
  <2>4. c \in D => \E n \in DOMAIN b.nodes : c = [b EXCEPT !.tombs = @ \cup {n}, !.reverts = 0]
    OBVIOUS
  <2>5. c \in E => \E e \in EdgeKey, x \in EdgeBlock :
            Ends[x] \subseteq DOMAIN b.nodes /\ c = Stored(b, WithEdge(NothingStaged, e, x), b.tombs, 0)
    OBVIOUS
  <2>6. c \in A \/ c \in B \/ c \in C \/ c \in D \/ c \in E
    BY DEF Called
  <2> QED
    BY <2>1, <2>2, <2>3, <2>4, <2>5, <2>6
<1> QED
  BY <1>1, <1>2, <1>3, <1>4, <1>5, <1>6

(***************************************************************************)
(* The invariant: every version is whole, and every revert was made, and   *)
(* not refused, on the version before it.                                  *)
(***************************************************************************)
LogOK ==
    /\ hash \in Hashes /\ log \in Seq(LogVersion) /\ Len(log) >= 2
    /\ \A j \in DOMAIN log : Whole(log[j])

\* Version w took version i back on top of base.
Took(w, i, base) ==
    ~ Refused(i, base) /\ w = Stored(base, InverseOf(i, base), base.tombs \ Buried(i), i)

MadeOK ==
    \A j \in Reverting : /\ log[j].reverts \in 2..(j - 1)
                         /\ Took(log[j], log[j].reverts, log[j - 1])

LogInv == LogOK /\ MadeOK

LEMMA ChangesIs ==
    ASSUME LogOK, NEW i \in 2..Len(log)
    PROVE  /\ log[i - 1] \in LogVersion /\ log[i] \in LogVersion
           /\ Diffs(NodeChanges(i), EdgeChanges(i), log[i - 1], log[i])
           /\ Exact => ExactDiffs(NodeChanges(i), EdgeChanges(i), log[i - 1], log[i])
<1>1. i \in DOMAIN log /\ i - 1 \in DOMAIN log
  BY DEF LogOK
<1>2. log[i - 1] \in LogVersion /\ log[i] \in LogVersion
  BY <1>1 DEF LogOK, Whole
<1>3. /\ log[i - 1].nodes \in Tree(Key, Value) /\ log[i].nodes \in Tree(Key, Value)
      /\ log[i - 1].edges \in Tree(EdgeKey, EdgeBlock) /\ log[i].edges \in Tree(EdgeKey, EdgeBlock)
  BY <1>2 DEF LogVersion
<1>4. hash \in Hashes
  BY DEF LogOK
<1>5. Diffs(NodeChanges(i), EdgeChanges(i), log[i - 1], log[i])
  BY <1>3, <1>4, HonestAssumption DEF Diffs, NodeChanges, EdgeChanges
<1>6. Exact => ExactDiffs(NodeChanges(i), EdgeChanges(i), log[i - 1], log[i])
  BY <1>3, <1>4 DEF Exact, ExactDiffs, NodeChanges, EdgeChanges
<1> QED
  BY <1>2, <1>5, <1>6

\* The log only grows, and what was made stays as it was made.
LEMMA LogGrows ==
    ASSUME LogInv, NEW v, Whole(v), log' = Append(log, v), hash' = hash,
           v.reverts # 0 => v.reverts \in 2..Len(log) /\ Took(v, v.reverts, Newest)
    PROVE  LogInv'
<1>1. /\ log \in Seq(LogVersion) /\ Len(log) \in Nat /\ Len(log) >= 2 /\ v \in LogVersion
      /\ DOMAIN log = 1..Len(log)
  BY DEF LogInv, LogOK, Whole
<1>2. /\ log' \in Seq(LogVersion) /\ Len(log') = Len(log) + 1 /\ DOMAIN log' = 1..(Len(log) + 1)
      /\ log'[Len(log) + 1] = v /\ \A j \in DOMAIN log : log'[j] = log[j]
  BY <1>1, AppendProperties
<1>3. LogOK'
  <2>1. \A j \in 1..(Len(log) + 1) : j \in DOMAIN log \/ j = Len(log) + 1
    BY <1>1
  <2>2. \A j \in DOMAIN log' : Whole(log'[j])
    BY <1>2, <2>1 DEF LogInv, LogOK
  <2> QED
    BY <1>1, <1>2, <2>2 DEF LogInv, LogOK, Whole
<1>4. ASSUME NEW i \in 2..Len(log), NEW b, NEW w PROVE Took(w, i, b)' <=> Took(w, i, b)
  <2>1. log'[i] = log[i] /\ log'[i - 1] = log[i - 1]
    BY <1>1, <1>2
  <2>2. NodeChanges(i)' = NodeChanges(i) /\ EdgeChanges(i)' = EdgeChanges(i)
    BY <2>1 DEF NodeChanges, EdgeChanges
  <2>3. InverseOf(i, b)' = InverseOf(i, b)
    BY <2>2 DEF InverseOf
  <2>4. Buried(i)' = Buried(i)
    BY <2>1 DEF Buried
  <2>5. Refused(i, b)' <=> Refused(i, b)
    BY <2>2, <2>3 DEF Refused
  <2> QED
    BY <2>3, <2>4, <2>5 DEF Took
<1>5. ASSUME NEW j \in DOMAIN log', log'[j].reverts # 0
      PROVE  log'[j].reverts \in 2..(j - 1) /\ Took(log[j], log[j].reverts, log[j - 1])'
  <2>1. PICK w, i, b : w = log'[j] /\ i = log'[j].reverts /\ b = log'[j - 1]
    OBVIOUS
  <2>2. i \in 2..(j - 1) /\ i \in 2..Len(log) /\ Took(w, i, b)
    <3>1. CASE j \in DOMAIN log
      <4>1. w = log[j] /\ i = log[j].reverts /\ j \in Reverting
        BY <1>2, <1>5, <2>1, <3>1 DEF Reverting
      <4>2. i \in 2..(j - 1) /\ Took(w, i, log[j - 1])
        BY <4>1 DEF LogInv, MadeOK
      <4>3. j - 1 \in DOMAIN log /\ i \in 2..Len(log)
        BY <1>1, <3>1, <4>2
      <4>4. b = log[j - 1]
        BY <1>2, <2>1, <4>3
      <4> QED
        BY <4>2, <4>3, <4>4
    <3>2. CASE j = Len(log) + 1
      <4>1. w = v /\ i = v.reverts /\ i # 0
        BY <1>2, <1>5, <2>1, <3>2
      <4>2. j - 1 = Len(log) /\ Len(log) \in DOMAIN log
        BY <1>1, <3>2
      <4>3. b = Newest
        BY <1>2, <2>1, <4>2 DEF Newest
      <4> QED
        BY <4>1, <4>2, <4>3
    <3> QED
      BY <1>1, <1>2, <3>1, <3>2
  <2>3. Took(w, i, b)'
    BY <1>4, <2>2
  <2> QED
    BY <2>1, <2>2, <2>3 DEF Took
<1>6. MadeOK'
  BY <1>5 DEF MadeOK, Reverting
<1> QED
  BY <1>3, <1>6 DEF LogInv

LEMMA LogAt ==
    ASSUME LogOK, NEW j \in 2..Len(log)
    PROVE  /\ j \in DOMAIN log /\ j - 1 \in DOMAIN log
           /\ Whole(log[j]) /\ Whole(log[j - 1])
<1> QED
  BY DEF LogOK

LEMMA WriteKeeps ==
    ASSUME LogInv, Write
    PROVE  LogInv'
<1>1. PICK b \in Called(Newest) : \E c \in {b} \cup Called(b) : log' = Append(log, c)
  BY DEF Write
<1>0. PICK c \in {b} \cup Called(b) : log' = Append(log, c)
  BY <1>1
<1>2. Whole(Newest)
  BY LogAt DEF LogInv, LogOK, Newest
<1>3. Whole(b) /\ b.reverts = 0
  BY <1>2, CalledWhole
<1>4. Whole(c) /\ c.reverts = 0
  <2>1. CASE c \in Called(b)
    BY <1>3, <2>1, CalledWhole
  <2> QED
    BY <1>3, <2>1
<1>5. hash' = hash
  BY DEF Write
<1> QED
  BY <1>0, <1>4, <1>5, LogGrows

LEMMA RevertKeeps ==
    ASSUME LogInv, NEW i, Revert(i)
    PROVE  LogInv'
<1> DEFINE v == Stored(Newest, InverseOf(i, Newest), Newest.tombs \ Buried(i), i)
<1>1. i \in 2..Len(log) /\ ~ Refused(i, Newest) /\ log' = Append(log, v) /\ hash' = hash
  BY DEF Revert
<1>2. LogOK /\ Whole(Newest) /\ i \in Nat
  BY <1>1, LogAt DEF LogInv, LogOK, Newest
<1>3. Newest \in LogVersion /\ EndsIn(Newest.edges, DOMAIN Newest.nodes) /\ Newest.tombs \in SUBSET Key
  BY <1>2 DEF Whole, LogVersion
<1>4. /\ log[i - 1] \in LogVersion /\ log[i] \in LogVersion
      /\ Diffs(NodeChanges(i), EdgeChanges(i), log[i - 1], log[i])
  BY <1>1, <1>2, ChangesIs
<1>5. v \in LogVersion
  BY <1>2, <1>3, <1>4, ReversalTypes DEF InverseOf
<1>6. Checked(Newest, Reversal(NodeChanges(i), EdgeChanges(i), Newest))
  BY <1>1 DEF Refused, InverseOf
<1>7. /\ \A p \in DOMAIN NodeChanges(i) : p \in Nat
      /\ \A p \in DOMAIN EdgeChanges(i) : p \in Nat
  BY <1>4 DEF Diffs, HonestDiff
<1>8. EndsIn(v.edges, DOMAIN v.nodes)
  BY <1>3, <1>6, <1>7, ReversalEnds DEF InverseOf
<1>9. v.reverts = i
  BY DEF Stored
<1>10. Took(v, i, Newest)
  BY <1>1 DEF Took
<1> HIDE DEF v
<1> QED
  BY <1>1, <1>5, <1>8, <1>9, <1>10, LogGrows DEF Whole

LEMMA InitMakes ==
    ASSUME RevertInit
    PROVE  LogInv
<1>1. PICK S \in SUBSET Key, x \in Value : log = <<Empty, [Empty EXCEPT !.nodes = [k \in S |-> x]]>>
  BY DEF RevertInit
<1> DEFINE w == [Empty EXCEPT !.nodes = [k \in S |-> x]]
<1>2. Empty \in LogVersion /\ Whole(Empty) /\ Empty.reverts = 0 /\ DOMAIN Empty.edges = {}
  BY EmptyIs DEF Empty, Whole
<1>3. [k \in S |-> x] \in Tree(Key, Value)
  BY TreeIs
<1>4. w \in LogVersion /\ w.edges = Empty.edges /\ w.reverts = 0
  BY <1>2, <1>3 DEF LogVersion
<1>5. Whole(w)
  BY <1>2, <1>4 DEF Whole, EndsIn
<1> HIDE DEF w
<1>6. /\ log \in Seq(LogVersion) /\ Len(log) = 2 /\ DOMAIN log = {1, 2}
      /\ log[1] = Empty /\ log[2] = w
  BY <1>1, <1>2, <1>4 DEF w
<1>7. LogOK
  BY <1>2, <1>5, <1>6 DEF LogOK, RevertInit
<1>8. MadeOK
  BY <1>2, <1>4, <1>6 DEF MadeOK, Reverting
<1> QED
  BY <1>7, <1>8 DEF LogInv

(***************************************************************************)
(* Every version that is a revert was made by post_revert or run_revert on *)
(* the version before it, of an older version than itself, and refused     *)
(* neither by the pre-flight check nor by commit_opts.                     *)
(***************************************************************************)
THEOREM EveryRevertMade == RevertSpec => []LogInv
<1>1. RevertInit => LogInv
  BY InitMakes
<1>2. LogInv /\ [RevertNext]_revertVars => LogInv'
  <2> SUFFICES ASSUME LogInv, [RevertNext]_revertVars PROVE LogInv'
    OBVIOUS
  <2>1. CASE Write
    BY <2>1, WriteKeeps
  <2>2. ASSUME NEW i \in DOMAIN log, Revert(i) PROVE LogInv'
    BY <2>2, RevertKeeps
  <2>3. CASE UNCHANGED revertVars
    BY <2>3 DEF revertVars, LogInv, LogOK, MadeOK, Took, Reverting, Refused, Checked, InverseOf,
                NodeChanges, EdgeChanges, Buried
  <2> QED
    BY <2>1, <2>2, <2>3 DEF RevertNext
<1> QED
  BY <1>1, <1>2, PTL DEF RevertSpec

LEMMA MadeAt ==
    ASSUME LogInv, NEW j \in Reverting, NEW i, i = log[j].reverts
    PROVE  /\ j \in 2..Len(log) /\ i \in 2..Len(log) /\ i \in Nat
           /\ Whole(log[j]) /\ Whole(log[j - 1]) /\ Whole(log[i]) /\ Whole(log[i - 1])
           /\ ~ Refused(i, log[j - 1])
           /\ log[j] = Stored(log[j - 1], Reversal(NodeChanges(i), EdgeChanges(i), log[j - 1]),
                              log[j - 1].tombs \ Buried(i), i)
           /\ Diffs(NodeChanges(i), EdgeChanges(i), log[i - 1], log[i])
           /\ Exact => ExactDiffs(NodeChanges(i), EdgeChanges(i), log[i - 1], log[i])
<1>1. LogOK /\ j \in DOMAIN log /\ DOMAIN log = 1..Len(log) /\ Len(log) \in Nat
  BY DEF LogInv, LogOK, Reverting
<1>2. i \in 2..(j - 1) /\ Took(log[j], i, log[j - 1])
  BY DEF LogInv, MadeOK
<1>3. j \in 2..Len(log) /\ i \in 2..Len(log) /\ i \in Nat
  BY <1>1, <1>2
<1> QED
  BY <1>1, <1>2, <1>3, LogAt, ChangesIs DEF Took, InverseOf

(***************************************************************************)
(* No revert leaves an edge without an end, or puts an edge that its       *)
(* version had removed back at a tombstoned node, however many chunks the  *)
(* trees are cut into (the pre-flight check and commit_opts).              *)
(***************************************************************************)
THEOREM NoRevertRevivesAnEdge == RevertSpec => []NoEdgeRevived
<1>1. LogInv => NoEdgeRevived
  <2> SUFFICES ASSUME LogInv, NEW j \in Reverting
               PROVE  /\ EndsIn(log[j].edges, DOMAIN log[j].nodes)
                      /\ \A e \in DOMAIN log[j].edges
                                    \ (DOMAIN log[j - 1].edges \cup DOMAIN log[log[j].reverts].edges) :
                            Ends[log[j].edges[e]] \cap log[j - 1].tombs = {}
    BY DEF NoEdgeRevived
  <2>1. PICK i : i = log[j].reverts
    OBVIOUS
  <2>2. /\ Whole(log[j]) /\ Whole(log[i]) /\ Whole(log[i - 1]) /\ ~ Refused(i, log[j - 1])
        /\ log[j] = Stored(log[j - 1], Reversal(NodeChanges(i), EdgeChanges(i), log[j - 1]),
                           log[j - 1].tombs \ Buried(i), i)
        /\ Diffs(NodeChanges(i), EdgeChanges(i), log[i - 1], log[i])
    BY <2>1, MadeAt
  <2>3. log[i] \in LogVersion /\ log[i - 1] \in LogVersion /\ EndsAlive(EdgeChanges(i), log[j - 1])
    BY <2>2 DEF Whole, Refused
  <2>4. ASSUME NEW e \in DOMAIN log[j].edges, e \notin DOMAIN log[j - 1].edges,
               e \notin DOMAIN log[i].edges
        PROVE  Ends[log[j].edges[e]] \cap log[j - 1].tombs = {}
    BY <2>2, <2>3, <2>4, ReversalRevives
  <2> QED
    BY <2>1, <2>2, <2>4 DEF Whole
<1> QED
  BY <1>1, EveryRevertMade, PTL

(***************************************************************************)
(* Where the diff is exact, a revert keeps every node that its version did *)
(* not change, and every edge that it did not change while the ends are    *)
(* there (post_revert, run_revert).                                        *)
(***************************************************************************)
THEOREM RevertKeepsOthers ==
    ASSUME Exact
    PROVE  RevertSpec => []OthersKept
<1>1. LogInv => OthersKept
  <2> SUFFICES ASSUME LogInv, NEW j \in Reverting, NEW i, i = log[j].reverts
               PROVE  /\ \A n \in Key : Same(log[i - 1].nodes, log[i].nodes, n)
                                           => Same(log[j - 1].nodes, log[j].nodes, n)
                      /\ \A e \in DOMAIN log[j - 1].edges :
                            (Same(log[i - 1].edges, log[i].edges, e)
                              /\ Ends[log[j - 1].edges[e]] \subseteq DOMAIN log[j].nodes)
                                => Same(log[j - 1].edges, log[j].edges, e)
    BY DEF OthersKept
  <2>1. /\ Whole(log[j - 1]) /\ Whole(log[i]) /\ Whole(log[i - 1])
        /\ log[j] = Stored(log[j - 1], Reversal(NodeChanges(i), EdgeChanges(i), log[j - 1]),
                           log[j - 1].tombs \ Buried(i), i)
        /\ Diffs(NodeChanges(i), EdgeChanges(i), log[i - 1], log[i])
        /\ ExactDiffs(NodeChanges(i), EdgeChanges(i), log[i - 1], log[i])
    BY MadeAt
  <2>2. log[i] \in LogVersion /\ log[i - 1] \in LogVersion /\ log[j - 1] \in LogVersion
    BY <2>1 DEF Whole
  <2> DEFINE a    == log[i - 1]
             b    == log[i]
             base == log[j - 1]
             ns   == NodeChanges(i)
             es   == EdgeChanges(i)
             w    == Stored(base, Reversal(ns, es, base), base.tombs \ Buried(i), i)
  <2>3. /\ \A n : Same(a.nodes, b.nodes, n) => Same(base.nodes, w.nodes, n)
        /\ \A e \in DOMAIN base.edges :
              Same(a.edges, b.edges, e) /\ Ends[base.edges[e]] \subseteq DOMAIN w.nodes
                 => Same(base.edges, w.edges, e)
    <3>1. /\ a \in LogVersion /\ b \in LogVersion /\ base \in LogVersion
          /\ Diffs(ns, es, a, b) /\ ExactDiffs(ns, es, a, b)
      BY <2>1, <2>2
    <3> HIDE DEF a, b, base, ns, es
    <3> QED
      BY <3>1, ReversalKeeps
  <2>4. log[j] = w
    BY <2>1
  <2> HIDE DEF w
  <2> QED
    BY <2>3, <2>4
<1> QED
  BY <1>1, EveryRevertMade, PTL

\* The revert of the newest version gives the one before, tombstones apart that it took away.
LEMMA NewestUndone ==
    ASSUME Exact, LogInv, NEW j \in Reverting, NEW i, i = log[j].reverts, i = j - 1
    PROVE  /\ log[j].nodes = log[i - 1].nodes /\ log[j].edges = log[i - 1].edges
           /\ log[j].tombs = log[i].tombs \ Buried(i)
<1>1. /\ Whole(log[i]) /\ Whole(log[i - 1]) /\ i \in Nat /\ log[j - 1] = log[i]
      /\ log[j] = Stored(log[i], Reversal(NodeChanges(i), EdgeChanges(i), log[i]),
                         log[i].tombs \ Buried(i), i)
      /\ Diffs(NodeChanges(i), EdgeChanges(i), log[i - 1], log[i])
      /\ ExactDiffs(NodeChanges(i), EdgeChanges(i), log[i - 1], log[i])
  BY MadeAt
<1>2. /\ log[i] \in LogVersion /\ log[i - 1] \in LogVersion
      /\ EndsIn(log[i - 1].edges, DOMAIN log[i - 1].nodes)
      /\ log[i].tombs \ Buried(i) \in SUBSET Key
  BY <1>1 DEF Whole, LogVersion
<1>3. log[j].nodes = log[i - 1].nodes /\ log[j].edges = log[i - 1].edges
  BY <1>1, <1>2, ReversalUndoes
<1>4. log[j].tombs = log[i].tombs \ Buried(i)
  BY <1>1 DEF Stored
<1> QED
  BY <1>3, <1>4

(***************************************************************************)
(* Where the diff is exact, the revert of the newest version restores the  *)
(* nodes and edges of the one before, and its tombstones unless the        *)
(* version had taken some away (mnem-cli/src/main.rs: "Revert an op's      *)
(* changes by creating a new inverse commit").                             *)
(***************************************************************************)
THEOREM RevertOfTheNewestUndoes ==
    ASSUME Exact
    PROVE  RevertSpec => []RevertUndoes
<1>1. LogInv => RevertUndoes
  <2> SUFFICES ASSUME LogInv, NEW j \in Reverting, NEW i, i = log[j].reverts, i = j - 1
               PROVE  /\ log[j].nodes = log[i - 1].nodes /\ log[j].edges = log[i - 1].edges
                      /\ log[i - 1].tombs \subseteq log[i].tombs => log[j].tombs = log[i - 1].tombs
    BY DEF RevertUndoes
  <2>1. /\ log[j].nodes = log[i - 1].nodes /\ log[j].edges = log[i - 1].edges
        /\ log[j].tombs = log[i].tombs \ Buried(i)
    BY NewestUndone
  <2>2. log[i - 1].tombs \subseteq log[i].tombs => log[i].tombs \ Buried(i) = log[i - 1].tombs
    BY DEF Buried
  <2> QED
    BY <2>1, <2>2
<1> QED
  BY <1>1, EveryRevertMade, PTL

(***************************************************************************)
(* Where the diff is exact, a second revert of the newest version, right   *)
(* after the first, finds no change left to take back and stores nothing   *)
(* (post_revert: "the op may have already been reverted").                 *)
(***************************************************************************)
THEOREM SecondRevertFindsNothing ==
    ASSUME Exact
    PROVE  RevertSpec => []SecondFindsNothing
<1>1. LogInv => SecondFindsNothing
  <2> SUFFICES ASSUME LogInv, NEW i \in DOMAIN log, i > 1, i = Len(log) - 1, Newest.reverts = i
               PROVE  Noop(i, Newest)
    BY DEF SecondFindsNothing
  <2>1. PICK j : j = Len(log)
    OBVIOUS
  <2>2. LogOK /\ Len(log) \in Nat /\ DOMAIN log = 1..Len(log)
    BY DEF LogInv, LogOK
  <2>3. j \in Reverting /\ i = log[j].reverts /\ i = j - 1 /\ log[j] = Newest
    BY <2>1, <2>2 DEF Newest, Reverting
  <2>4. /\ Newest.nodes = log[i - 1].nodes /\ Newest.edges = log[i - 1].edges
        /\ Newest.tombs = log[i].tombs \ Buried(i)
    BY <2>3, NewestUndone
  <2>5. /\ log[i] \in LogVersion /\ log[i - 1] \in LogVersion
        /\ Diffs(NodeChanges(i), EdgeChanges(i), log[i - 1], log[i])
        /\ ExactDiffs(NodeChanges(i), EdgeChanges(i), log[i - 1], log[i])
    BY <2>3, MadeAt DEF Whole
  <2>6. NodeCalls(NodeChanges(i), Newest.nodes) = {} /\ EdgeCalls(EdgeChanges(i), Newest.edges) = {}
    BY <2>4, <2>5, NothingDue
  <2> QED
    BY <2>4, <2>6 DEF Noop
<1> QED
  BY <1>1, EveryRevertMade, PTL
=============================================================================
