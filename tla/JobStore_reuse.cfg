SPECIFICATION Spec
CONSTANTS
  Id = {1, 2}
  Npc = {n1}
  Scope = {s1}
  Words = {w1}
  Handler = {h1}
  Ops = {"talk", "result", "cancel"}
  MaxJobs = 1
  QueueLen = 1
  Deadline = 1
  Ttl = 1
  Backends = {"canned"}
  MaxTime = 2
  MaxAdmissions = 3
  None = None
INVARIANTS
  OutcomesAreTheirOwn
