\* One host of each kind; runs, edits and kills as in the bounds.
SPECIFICATION InSpec
CONSTANTS
  Host = {claude_code, continue, hermes}
  Markdown = {claude_code}
  JsonPrompt = {continue}
  JsonHooks = {claude_code}
  ScriptHooks = {hermes}
  Item = {i}
  Version = {v}
  MaxRuns = 3
  MaxNamed = 2
  MaxEdits = 1
  MaxKills = 1
INVARIANTS ScriptBehindHook  BackupsAreOriginals
PROPERTY UndoLeavesNothing
CHECK_DEADLOCK FALSE
