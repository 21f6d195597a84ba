SPECIFICATION Spec
CONSTANTS
  errorAmnesiaTime = 30
  errorDelayMinTime = 6
  errorDelayMaxTime = 30
  MaxAge = 33
PROPERTY LongDelayForgotten
