SPECIFICATION Spec
CONSTANTS
    Contacts = {c1}
    Workers = {w1, w2}
    MaxTokens = 3
    MaxSubmissions = 2
    MaxExpired = 1
    MaxEvents = 5
    None = None
PROPERTY AnswerFollowsTheReply
CHECK_DEADLOCK FALSE
