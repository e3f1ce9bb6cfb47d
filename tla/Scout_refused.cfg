SPECIFICATION Spec
CONSTANTS
  Parts = {"scout"}
  Clusters = {"k"}
  Scans = {s1}
  Editors = {e1}
  MaxTrends = 2
  MaxRequests = 2
  MaxOpen = 1
  MaxProposals = 1
  MaxTogether = 1
  Writers = {w1, w2}
  Topics = {a, b}
  MaxEntries = 3
  MaxStarts = 3
  MaxVerify = 1
  Beside = {j2}
  Drafts = {j1, j2}
  Reviewers = {r1, r2}
  Images = {"img"}
  MaxAttempts = 2
  MaxScans = 2
  MaxSeconds = 2
  MaxPages = 2
  MaxReviews = 1
SYMMETRY Interchangeable
CHECK_DEADLOCK FALSE
PROPERTIES RefusedCreatesNothing
