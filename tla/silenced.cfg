\* A second excursion that begins within the window of the first one's alert.
SPECIFICATION Spec
CONSTANTS
  Dog = dog  Admission = admission  WatchKey = watch  Refusals = {fitA, fitB}
  log = log  webhook = webhook
  Sinks <- LogThenWebhook
  Flaky = {webhook}
  Total = 10  Buffer = 2  Grain = 1  SafeLine = 8
  Levels = {7, 8, 9}
  Window = 2  MaxTime = 4
INVARIANTS
  SustainedIsAlerted
