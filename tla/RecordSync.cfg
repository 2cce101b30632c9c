SPECIFICATION Spec
CONSTANTS
  Request = {q1, q2}
  Tab = {a}
  Other = Other
  Agent = Agent
  Initial = Initial
  Kinds = {"create", "rename", "mode", "patch", "archive", "restore", "delete", "settings", "theme", "locale", "addProject", "deleteProject", "addTodo", "checkTodo", "deleteTodo", "addTask", "cancelTask"}
  Faults = TRUE
SYMMETRY Symmetry
INVARIANTS TypeOK NoWriteIsLost ReplayTellsTheRow ErrorMeansNoChange TabsShowWhatTheyHeard
CHECK_DEADLOCK FALSE
