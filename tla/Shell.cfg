CONSTANTS
    Width = 5
    Height = 2
    MaxArgs = 3
    ArgBytes = 6
    StackSize = 26
    PtrSize = 2
    BufferSize = 7
    ShellMaxArgs = 2
    LineSize = 3
    Printable = {"a", "b", " "}
    CommandOf <- SmallCommands
    Programs <- SmallPrograms
    Texts <- SmallTexts
    ReadLens = {0, 1, 2}
    MaxKeys = 7
    MaxWrites = 1
    WordMod = 256
    Formats <- SmallFormats
    ArgLists <- SmallArgLists
    BufSizes = {0, 1, 3, 6}
SPECIFICATION ConsoleSpec
INVARIANTS ScreenShowsPage ScreenShowsLine ProgramGetsWords ReadsReturnLines
    PrintkMeansFormat SnprintkFillsBuffer
CHECK_DEADLOCK FALSE
