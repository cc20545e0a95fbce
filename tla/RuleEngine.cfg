SPECIFICATION Spec
CONSTANTS
  Str <- MCStr
  Empty = ""
  Substring <- MCSubstring
  Prefix <- MCPrefix
  Suffix <- MCSuffix
  RegexMatch <- MCRegexMatch
  BadRegex <- MCBadRegex
  Number <- MCNumber
  Spelling <- MCSpelling
  RuleLists <- MCRuleLists
  Contexts <- MCContexts
INVARIANTS EvaluatesFirstMatch CacheKeepsAnswers NegationIsExact
CHECK_DEADLOCK FALSE
