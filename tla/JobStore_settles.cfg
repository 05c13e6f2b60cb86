SPECIFICATION FairSpec
CONSTANTS
  Id = {1, 2}
  Npc = {n1}
  Scope = {s1}
  Words = {w1}
  Handler = {h1}
  Ops = {"talk", "result", "cancel"}
  MaxJobs = 2
  QueueLen = 1
  Deadline = 1
  Ttl = 1
  Backends = {"upstream", "canned"}
  MaxTime = 2
  MaxAdmissions = 2
  None = None
PROPERTIES
  EveryJobSettles
