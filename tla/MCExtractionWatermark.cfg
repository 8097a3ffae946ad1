CONSTANTS
    s1 = s1  s2 = s2  s3 = s3  p1 = p1  p2 = p2  hello = hello  echo = echo
    None = None  Malformed = Malformed
    Agent <- Agents
    Session = {s1, s2, s3}
    AgentOf <- Writer
    FullWindow = {2}
    Key <- Keys
    AliasesOf <- Aliases
    Fragile = {s1}
    Command <- Commands
    Text = {hello, echo}
    Speech <- Speeches
    Echo = {echo}
    Minute = 2
    MaxHashes = 2
    Proc = {p1, p2}
    MaxClock = 3
    MaxRuns = 1
    MaxFaults = 0
SYMMETRY Symmetry
SPECIFICATION Spec
INVARIANTS SkippedWasProcessed
CHECK_DEADLOCK FALSE
