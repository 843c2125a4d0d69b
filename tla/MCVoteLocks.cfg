SPECIFICATION Spec
CONSTANTS
  r1 = r1  r2 = r2  r4 = r4
  v12 = v12  v21 = v21  v41 = v41  v32 = v32  v34 = v34  c3 = c3
  N = 4
  Report = {r1, r2, r4}
  Author <- Authors
  Registered = {1, 2, 4}
  Vote = {v12, v21, v41, v32, v34}
  Upsert = {c3}
  Caller <- Callers
  Target <- Targets
INVARIANT NoWaitCycle
 
CHECK_DEADLOCK FALSE
