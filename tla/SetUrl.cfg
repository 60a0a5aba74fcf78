\* Two processes and two worktrees, crashes and cancellations, other gitana
\* writers and one edit by stock Git.
SPECIFICATION FairSpec
CONSTANTS
  w1 = w1
  w2 = w2
  None = None
  Procs = {p1, p2}
  Worktrees = {w1, w2}
  Participants <- MCParticipants
  old = old
  new = new
  Urls = {old, new}
  InitialUrls <- MCInitialUrls
  MaxImages = 2
  MaxGit = 1
  MaxCrashes = 2
INVARIANTS TypeOK NoEditLost OnlyGitOvertakes ReadyCanFinish
PROPERTIES ImplementsRollForward RecoverySettles
