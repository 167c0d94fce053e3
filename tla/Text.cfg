CONSTANTS
  NULL = NULL
  MaxInt = 31
  MaxIndent = 2
  IndentChars = {" ", "TAB"}
  Trees <- MCTrees
  Variants <- MCVariants
  Signatures <- MCSignatures
  Alphabets <- MCAlphabets
  Classes = {"ints", "all", "own", "shut"}
  Properties <- MCProperties
  NamedValues <- MCNamedValues
  Objects <- MCObjects
  Documents <- MCDocuments
  BoxedTypes = {"object", "array"}
SPECIFICATION Spec
INVARIANTS  Positions RoundTrip Conforms  Restored EachByItself
