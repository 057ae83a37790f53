SPECIFICATION Spec
CONSTANTS
  Drafts <- TheDrafts
  Recommendations <- TheRecommendations
  Misnomers <- TheMisnomers
  Inside <- TheInside
  MaxSlips = 2
INVARIANTS MendedIsAsMeant RefusedOnlyForServers
CHECK_DEADLOCK FALSE
