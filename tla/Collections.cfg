CONSTANTS
  Requested <- MCRequested
  SendTimes = {1}
  DueTimes = {1, 2}
  NoDue = NoDue
  MaxTime = 2
  MaxMessages = 3
  MaxDetours = 2
  anna = anna  email1 = email1  email2 = email2  phone1 = phone1  phone2 = phone2
  Names = {anna}
  Emails = {email1, email2}
  Phones = {phone1, phone2}
  None = None
  Limit = 2
  ImportSize = 2
  MaxPeople = 3
  MaxEdits = 3
SPECIFICATION MCSpec
CHECK_DEADLOCK FALSE
INVARIANTS RemindersPlanned OneRoundPerRule DeletedNeverStarted 
INVARIANTS ImportsShareNoContact KnowledgeFollowsNumber
PROPERTY ScheduledGoesOut
