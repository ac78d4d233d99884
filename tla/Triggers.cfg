SPECIFICATION Spec
CONSTANTS
  often = often
  once = once
  wrong = wrong
  o1 = o1
  o2 = o2
  d1 = d1
  v1 = v1
  v2 = v2
  None = None
  Schedule <- MCSchedule
  Organizations <- MCOrganizations
  OrgOf <- MCOrgOf
  CronOf <- MCCronOf
  Enabled <- MCEnabled
  Horizon = 2
  DateAt <- MCDateAt
  Poll = {1, 2, 3}
  Delivery = {d1}
  Attempt = {1, 2}
  DeliveryOrg <- MCDeliveryOrg
  Server = {v1, v2}
  MaxFaults = 1
CONSTRAINTS OneKind StoredFirst
CHECK_DEADLOCK FALSE
INVARIANTS
  RememberedIsQueued
  RepeatsHaveACause
  StrandedOnlyByCut
PROPERTIES
  CompletePollMissesNone
  EverythingEnds
