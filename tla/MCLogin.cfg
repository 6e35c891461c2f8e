SPECIFICATION DemoSpec
CONSTANTS
  Servers = {s1}
  Requests = {p1, p2}
  Things = {t1}
  MaxOwn = 1
  MaxResets = 1
PROPERTY SignInSparesWork
CHECK_DEADLOCK FALSE
