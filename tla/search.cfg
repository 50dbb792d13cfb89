SPECIFICATION SearchSpec
CONSTANTS
  Mailboxes <- SomeMailboxes
  Requests <- SomeRequests
  Flags = {"SEEN"}
  MaxNumber = 9
  MaxChanges = 1
\* After the second command nothing more is looked at.
CHECK_DEADLOCK FALSE
INVARIANTS
  AnswerIsTheMatches AnswersWhatItMust UseActsOnTheMatches
