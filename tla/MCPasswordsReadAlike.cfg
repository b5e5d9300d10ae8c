SPECIFICATION Spec
CONSTANTS
  Threads = {t1, t2}
  Targets = {"unix", "apple", "windows"}
  Environments = {"C", "legacy", "utf8", "missing"}
  Provisions = {{}, {1}, {2, 4}, {4}}
  MaxHost = 2
  MaxOpens = 2
INVARIANT
  PasswordsReadAlike
CHECK_DEADLOCK FALSE
