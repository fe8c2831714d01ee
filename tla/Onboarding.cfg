SPECIFICATION OnboardingSpec
CONSTANTS
    Emails <- MCEmails
    Slugs <- MCSlugs
    Reserved <- MCReserved
    MaxSteps = 4
    MaxLinks = 2
INVARIANTS
    PagesTrue
    AnswersFit
PROPERTIES
    CaptchaSolved
    Settles
CHECK_DEADLOCK FALSE
