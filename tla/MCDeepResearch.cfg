SPECIFICATION FairSessionSpec
CONSTANTS
  draft = draft
  revised = revised
  message = message
  pause = pause
  Texts = {draft, revised}
  Template = draft
  NoFile = NoFile
  Torn = Torn
  NoApproval = NoApproval
  MaxCalls = 3
  Events = {message, pause}
  Requests = {pause}
  MaxReviewRounds = 1
INVARIANTS SessionTypeOK ApprovedRequestStands ReviewRoundsFit
PROPERTIES CallIdsFresh SessionAnswers
CHECK_DEADLOCK FALSE
