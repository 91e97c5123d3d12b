SPECIFICATION EditorSpec
CONSTANTS
  Width = 4
  Height = 3
  TabStop = 8
  Size = 6
  HistorySize = 2
  ListSize = 2
  MaxKeys = 7
  Letters <- TwoLetters
  Prompt <- MCPrompt
  Outputs <- MCOutputs
  Listings <- MCListings
INVARIANTS
  LineSound
  HistoryIsLastLines
PROPERTIES
  CompletionOnlyAdds
  RecallShowsHistory
\* A session ends with its last key, or where the code leaves its arrays.
CHECK_DEADLOCK FALSE
