\* Three middlewares, every table of two routes, paths of up to three words.
CONSTANTS
  Words <- AllWords
  BadWords <- Undecodable
  Tables <- TwoRoutes
  Paths <- ShortPaths
  Nmw = 3
  MaxParams = 2
  Webroot = TRUE
SPECIFICATION Spec
INVARIANTS
  IndInv
  ChainInOrder
  RoutedAsSpecified
  OwnCaptures
