\* A flow of up to two jobs, its files edited and damaged between the commands.
CONSTANTS
  logs = logs
  raw = raw
  long = long
  short = short
  Step1 = step1
  Step2 = step2
  ReplaceMe = REPLACE_ME
  Part = {long, short, REPLACE_ME}
  Wrong = Wrong
  Job = {step1, step2}
  ValidId = {step1, step2}
  Dir = {logs}
  Raw = {raw}
  Ghost = Ghost
  None = None
  Absent = Absent
  Broken = Broken
  FlowFile <- MCFlowFile
  PlanFile <- MCPlanFile
  CommonFile <- MCCommonFile
SPECIFICATION Spec
INVARIANTS TypeOK CleanMeansSubmits FailsStop LogDirsAgree CleanTreeTicks NewFlowRenders DoctorExplains ReadFlowSettled
