SPECIFICATION FairSpec
CONSTANTS
  Threads = {t1, t2}
  Agents = {TRUE, FALSE}
  Calls = {"session", "sftp", "close"}
  MaxConns = 2
  MaxSftp = 2
INVARIANTS NoConnectionLeaked Heals
PROPERTY CallReturns
