\* Texts of up to four characters and paths and patterns of up to four parts
\* (SiteText); trees of up to six paths and two globs; four items of nextTick;
\* four calls of an emitter, its emits nested up to twice.
SPECIFICATION Spec
CONSTANTS
  FileWords <- ThaiFileWords
  WordLists <- ThaiWordLists
  FirstTexts <- ThaiFirstTexts
  Texts <- ThaiTexts
  Inputs <- JapaneseInputs
  Scorers <- JapaneseScorers
  Positive <- Ends
  MaxItems = 4
  Types = {"end", "error"}
  Functions = {"f", "g"}
  MaxCalls = 4
  MaxDepth = 2
  Pauses = 2
INVARIANTS SegmentersKeepText DictionaryCutsBest PathsLeadThere PatternsMean
   CallbacksInOrder
PROPERTIES QuietAfterAbort EverythingEnds
