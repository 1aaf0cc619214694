SPECIFICATION Spec
CONSTANTS
  Families = {"postgres", "sqlite"}
  Schemas <- Versions
  Printed <- Spelling
  Reads <- Mentions
  Nextvals = {"nextval"}
  Collation <- Alphabet
  MaxDeploys = 2
  MaxFailures = 1
INVARIANTS SafeKeepsData Settled Converges
PROPERTIES Resumes
CHECK_DEADLOCK FALSE
