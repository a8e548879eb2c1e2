CONSTANTS
  Callers = {page, scan}
  Endpoints = {east, west}
  None = None
  Nobody = Nobody
  MaxCalls = 2
  Models = {newer}
  Reasoning = {}
  Picky = {newer}
SPECIFICATION FairSpec
INVARIANTS RefusedAfterRefresh RejectedOnce
PROPERTIES Coalesced SignedForCurrent CallsReturn
CHECK_DEADLOCK FALSE
