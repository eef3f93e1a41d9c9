SPECIFICATION PdrSpec
CONSTANTS
  Sockets = {s1, s2, s3}
  Starts = {d1, d2}
  NoSocket = NoSocket
  MaxSession = 2
PROPERTIES
  Resumes
CHECK_DEADLOCK FALSE
