SPECIFICATION Spec
CONSTANTS
  Workers = {"w1", "w2"}
  Modes = {"recursive", "spider"}
  MaxDepth = 2
  Start <- MCStart
  Page <- MCPage
  Filter <- MCFilter
  RespectRobots = TRUE
  Disallowed <- MCDisallowed
  RobotsAnswers <- MCRobotsAnswers
  GetAnswers <- MCGetAnswers
  MayCancel = TRUE
INVARIANTS
  TypeOK
  OneHolder
  NoRequestTwice
  WithinDepth
  RobotsObeyed
  ResultIsTrue
PROPERTIES
  CrawlEnds
