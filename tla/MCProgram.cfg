SPECIFICATION Spec
CONSTANTS
  Width <- MCWidth
  LowerCase <- MCLowerCase
  NumberOf <- MCNumberOf
  LineSize = 16
  NameSize = 6
  ContentSize = 6
  SizeT = 1000
  RecvSize = 37
  Files <- MCFiles
  Absent = Absent
  Unreadable = Unreadable
  Requests <- MCRequests
  Sizes <- MCSizes
  Directory = Directory
  Page = 2
INVARIANTS
  TypeOK
  SettingsAsWritten
  RequestAsSent
  AnswerIsFile
PROPERTIES
  ParsingEnds
  ClientEnds
CHECK_DEADLOCK FALSE
