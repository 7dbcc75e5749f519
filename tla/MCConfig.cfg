SPECIFICATION ConfigSpec
CONSTANTS
    CaseFold <- MCCaseFold
    Files <- MCFiles
    Nodes <- MCNodes
    Length <- MCLength
    WordTexts <- MCWordTexts
    SerialTexts <- MCSerialTexts
    IPv4 = {"10.0.0.1"}
INVARIANTS
    AcceptedIffValid
    MatrixIsTheFile
    LoadedConfigIsUsable
    AntennaListFits
CHECK_DEADLOCK FALSE
