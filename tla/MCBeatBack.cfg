CONSTANTS
  a1 = a1
  a2 = a2
  a3 = a3
  Agents <- Pair
  Files = {"f1", "f2", "f3"}
  NoFile = NoFile
SPECIFICATION Spec
PROPERTIES BeatNotPutBack
