SPECIFICATION FairSpec
CONSTANTS
  Choices <- MCChoices
  MaxCI = 2
  Typed <- MCTyped
  MaxTyped <- MCMaxTyped
INVARIANTS
  BestCommonModulation
  NoAnswerToNobody
  LineHeldDuringCall
PROPERTIES
  CallsComeToAnEnd
