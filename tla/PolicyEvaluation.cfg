\* Every decision over two scopes and two environments.
SPECIFICATION PolicySpec
CONSTANTS
  Scopes = {"repo:read", "issues:write"}
  Environments = {dev, prod}
INVARIANTS PolicyTypeOK WithinEveryGrant DeniedOutright FallbackWidensExactly FallbackNarrowsExactly PythonAllowsSomething
CHECK_DEADLOCK FALSE
