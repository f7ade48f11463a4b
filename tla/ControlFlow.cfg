SPECIFICATION Spec
CONSTANTS
  Sources <- MCSources
  Conditions <- MCConditions
  Statements <- MCStatements
INVARIANTS CodeHangsTogether RefusedOnlyThere
PROPERTIES FollowsSource
CHECK_DEADLOCK FALSE
