SPECIFICATION ScheduleSpec
CONSTANTS
  Schedules <- Ids
  Interval <- TwoIntervals
  Poll = 1
  Horizon = 3
  MaxCrashes = 0
PROPERTIES
  NoRefireOnNextPoll
