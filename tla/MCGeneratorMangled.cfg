SPECIFICATION Spec
CONSTANTS
  Drafts <- TheGuideDrafts
  Recommendations <- TheRecommendations
  Misnomers <- TheMisnomers
  Inside <- TheInside
  MaxSlips = 1
INVARIANT NothingIsMangled
CHECK_DEADLOCK FALSE
