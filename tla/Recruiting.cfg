SPECIFICATION RecruitingSpec
SYMMETRY Symmetry
\* The budgets of bookings, people, postings, rules and mails run out.
CHECK_DEADLOCK FALSE
CONSTANTS
  Desks = {d1, d2}
  Idle = Idle
  SlotRules <- MCSlotRules
  Weekend = {3}
  Horizon = 2
  LastDay = 5
  MaxBookings = 5
  JobOf <- MCJobOf
  Emails = {m1}
  NoEmail = NoEmail
  NoJob = NoJob
  MaxPeople = 2
  MaxApps = 2
  MaxMail = 1
  BoardOf <- MCBoardOf
  Asks <- MCAsks
  Keyed = {"wanted"}
  MaxPostings = 3
  Profiles <- MCSought
  NoAddress = "none"
  Kinds = {"interview", "assessment"}
  Stages = {1, 2}
  Lengths = {2}
  Pipeline <- MCPipeline
  MaxRules = 2
  Hits <- MCHits
  Openings = {"j", "k"}
  ByHand = {"Contacted"}
  MaxSlate = 2
  MaxSids = 2
INVARIANTS
  SlotsDoNotClash
  OneApplicationPerJob
  OnePostingPerBoard
  FunnelKeepsUp
  RulesFitTheJob
  AnswersAreTheirs
