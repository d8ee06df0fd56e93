CONSTANTS
    NoFile = NoFile
    NoMax = NoMax
    Top = 0
    Files <- MCFiles
    Dir <- MCDir
    Stem <- MCStem
    Ext <- MCExt
    Basename <- MCBasename
    Trees <- MCTrees
    Params <- MCParams
SPECIFICATION Spec
INVARIANTS
    StreamIsWhole BatchesAreFull LargestVideoWins LowestAreAnswered
CHECK_DEADLOCK FALSE
