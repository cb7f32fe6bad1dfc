SPECIFICATION FairSpec
CONSTANTS
  t1 = t1
  t2 = t2
  t3 = t3
  ali = ali
  bea = bea
  Tabs = {t1, t2, t3}
  Agents = {ali, bea}
  AgentOf <- Signed
  Jobs = {j1}
  Commands = {c1, c2}
  NoCommand = none
  MaxFaults = 2
  MaxCloses = 1
INVARIANTS
  ClaimsTypeOK
  OneAgentPerJob
  ClaimsAreToldTruly

  
CHECK_DEADLOCK FALSE
