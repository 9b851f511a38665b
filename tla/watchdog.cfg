\* The watchdog and refusals over one rate limiter, the webhook failing at will.
SPECIFICATION FairSpec
CONSTANTS
  Dog = dog  Admission = admission  WatchKey = watch  Refusals = {fitA, fitB}
  log = log  webhook = webhook
  Sinks <- LogThenWebhook
  Flaky = {webhook}
  Total = 10  Buffer = 2  Grain = 1  SafeLine = 8
  Levels = {7, 8, 9}
  Window = 2  MaxTime = 4
INVARIANTS
  TypeOK
  Told
PROPERTIES
  OneAlertPerExcursion
  FollowsTheCard
