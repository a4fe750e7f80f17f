SPECIFICATION RuntimeSpec
CONSTANTS
  Users = {u1}
  Adapters = {"apple"}
  MaxIds = 2
  States = {"running", "exited"}
  Noise = {{}}
  Mentions <- TheMentions
  Failures = {"offline"}
CHECK_DEADLOCK FALSE
INVARIANT AbsentHasNoStatus
